---- MODULE Spec2Model ----
(***************************************************************************)
(* Model of the IFC file reader (ifc::File / ifc::File::Impl).             *)
(*                                                                         *)
(* The blob is a sequence of bytes; every structure the reader sees is     *)
(* decoded from those bytes the way the reinterpret_casts of the source    *)
(* decode it (little-endian 4-byte fields).  A byte has ByteBase values    *)
(* instead of 256, so a 4-byte field ranges over 0 .. ByteBase^4 - 1 and   *)
(* size_t arithmetic wraps at ByteBase^8: the ratio between the width of   *)
(* the fields and the width of size_t is the one of a 64-bit build.        *)
(* A pointer is modelled as BlobBase + byte offset.                        *)
(***************************************************************************)
EXTENDS Integers, Sequences, FiniteSets, TLC

ByteBase == 4
MaxPartitions == 2
MaxCardinality == 2
BlobBase == 0

WordBytes == 4
SizeTBytes == 8
WordMod == ByteBase ^ WordBytes
SizeMod == ByteBase ^ SizeTBytes
Byte == 0 .. (ByteBase - 1)

NONE == [none |-> TRUE]

\* sum of s[lo .. hi], splitting the range in halves
RECURSIVE SumRange(_, _, _)
SumRange(s, lo, hi) ==
    IF lo > hi THEN 0
    ELSE IF lo = hi THEN s[lo]
    ELSE LET mid == (lo + hi) \div 2
         IN  SumRange(s, lo, mid) + SumRange(s, mid + 1, hi)

SumSeq(s) == SumRange(s, 1, Len(s))

\* concatenation of ss[lo .. hi]
RECURSIVE ConcatRange(_, _, _)
ConcatRange(ss, lo, hi) ==
    IF lo > hi THEN <<>>
    ELSE IF lo = hi THEN ss[lo]
    ELSE LET mid == (lo + hi) \div 2
         IN  ConcatRange(ss, lo, mid) \o ConcatRange(ss, mid + 1, hi)

Concat(ss) == ConcatRange(ss, 1, Len(ss))

(***************************************************************************)
(* Partition names.  The TOC maps are keyed by the bytes of the name; the  *)
(* model writes each well-known name as a short string over the non-NUL    *)
(* byte values 1..3.  "scope.desc" is a proper prefix of "scope.member",   *)
(* so a comparison that ignores the length would confuse them.             *)
(***************************************************************************)
PartitionNameBytes ==
    [ scope_desc       |-> <<1>>,       \* "scope.desc"
      heap_expr        |-> <<2>>,       \* "heap.expr"
      name_guide       |-> <<3>>,       \* "name.guide"
      scope_member     |-> <<1, 1>>,    \* "scope.member"
      module_imported  |-> <<1, 2>>,    \* "module.imported"
      trait_attribute  |-> <<2, 1>>,    \* "trait.attribute"
      msvc_decl_attrs  |-> <<2, 2>>,    \* ".msvc.trait.decl-attrs"
      trait_deprecated |-> <<2, 3>>,    \* "trait.deprecated"
      trait_friend     |-> <<3, 1>>,    \* "trait.friend"
      trait_specialization |-> <<3, 2>>,  \* "trait.specialization"
      unknown          |-> <<3, 3>> ]   \* a name no accessor asks for

NameIds == DOMAIN PartitionNameBytes
NameStrings == { PartitionNameBytes[n] : n \in NameIds }

(***************************************************************************)
(* Layout of the fixed prefix and of a TOC descriptor.                     *)
(***************************************************************************)
CANONICAL_FILE_SIGNATURE ==
    << 84 % ByteBase, 81 % ByteBase, 69 % ByteBase, 26 % ByteBase >>

SignatureSize == 4
HeaderSize == 24
SizeofStructure == SignatureSize + HeaderSize

HeaderFieldOffset ==
    [ toc                |-> SignatureSize + 0,
      partition_count    |-> SignatureSize + 4,
      string_table_bytes |-> SignatureSize + 8,
      string_table_size  |-> SignatureSize + 12,
      global_scope       |-> SignatureSize + 16,
      unit               |-> SignatureSize + 20 ]

SizeofPartitionSummary == 16

SummaryFieldOffset ==
    [ name |-> 0, offset |-> 4, cardinality |-> 8, entry_size |-> 12 ]

\* the bytes of a field of width WordBytes at byte offset o
FieldBytes(o) == o .. (o + WordBytes - 1)

(***************************************************************************)
(* Reading the blob.  A read at an offset outside the blob is undefined    *)
(* behaviour: it either traps or yields some byte g.                       *)
(***************************************************************************)
ReadByte(b, g, o) == IF o < Len(b) THEN b[o + 1] ELSE g

ReadWord(b, g, o) ==
    SumSeq([ i \in 1 .. WordBytes |-> ReadByte(b, g, o + i - 1) * (ByteBase ^ (i - 1)) ])

\* structure()->signature
signature(b, g) == [ i \in 1 .. SignatureSize |-> ReadByte(b, g, i - 1) ]

\* header(): the fields of structure()->header
header(b, g) ==
    [ f \in DOMAIN HeaderFieldOffset |-> ReadWord(b, g, HeaderFieldOffset[f]) ]

\* get_raw_pointer / get_pointer: blob_.data() + offset
get_raw_pointer(offset) == BlobBase + offset

\* raw_count: the count wrapped by a Cardinality / EntitySize scalar
raw_count(v) == v

\* the PartitionSummary stored at blob offset o
ReadSummary(b, g, o) ==
    [ f \in DOMAIN SummaryFieldOffset |-> ReadWord(b, g, o + SummaryFieldOffset[f]) ]

\* table_of_contents(): span of partition_count descriptors at header.toc
table_of_contents(b, g) ==
    LET h == header(b, g)
    IN  [ i \in 1 .. raw_count(h.partition_count) |->
            ReadSummary(b, g, h.toc + (i - 1) * SizeofPartitionSummary) ]

\* blob offset of the i-th descriptor (the PartitionSummary const* the map stores)
SummaryAddress(b, g, i) == header(b, g).toc + (i - 1) * SizeofPartitionSummary

\* PartitionSummary::size_bytes
size_bytes(p) == (raw_count(p.cardinality) * raw_count(p.entry_size)) % SizeMod

\* calc_size(): size_t arithmetic
calc_size(b, g) ==
    LET toc == table_of_contents(b, g)
    IN  ( SizeofStructure + raw_count(header(b, g).string_table_size)
          + Len(toc) * SizeofPartitionSummary
          + SumSeq([ i \in 1 .. Len(toc) |-> size_bytes(toc[i]) ]) ) % SizeMod

\* the sum of the region sizes as a mathematical integer
RegionSum(b, g) ==
    LET toc == table_of_contents(b, g)
    IN  SizeofStructure + header(b, g).string_table_size
        + Len(toc) * SizeofPartitionSummary
        + SumSeq([ i \in 1 .. Len(toc) |-> toc[i].cardinality * toc[i].entry_size ])

(***************************************************************************)
(* Strings.  get_string returns the address of a character; the TOC map's  *)
(* key is the string_view built from it, i.e. the bytes up to the NUL.     *)
(***************************************************************************)
get_string(b, g, index) == header(b, g).string_table_bytes + index

\* offset of the first NUL at or after o; -1 when the scan runs off the
\* blob into bytes that are not NUL (it never ends inside the model)
RECURSIVE StrEnd(_, _, _)
StrEnd(b, g, o) ==
    IF o >= Len(b) THEN (IF g = 0 THEN o ELSE -1)
    ELSE IF b[o + 1] = 0 THEN o
    ELSE StrEnd(b, g, o + 1)

\* std::string_view(const char*): the characters before the NUL
StringView(b, g, o) ==
    LET e == StrEnd(b, g, o)
    IN  IF e = -1 THEN <<>> ELSE [ i \in 1 .. (e - o) |-> ReadByte(b, g, o + i - 1) ]

(***************************************************************************)
(* The blobs handed to the reader.  A producer lays out signature, header, *)
(* string table, partition payloads and TOC; the reader is also given      *)
(* blobs that were tampered with afterwards.                               *)
(***************************************************************************)
\* little-endian bytes of a field value
LE(v) == [ i \in 1 .. WordBytes |-> (v \div (ByteBase ^ (i - 1))) % ByteBase ]

MakeHeader(toc, count, stb, sts, gs) ==
    LE(toc) \o LE(count) \o LE(stb) \o LE(sts) \o LE(gs) \o LE(0)

MakeSummary(name, offset, cardinality, entry_size) ==
    LE(name) \o LE(offset) \o LE(cardinality) \o LE(entry_size)

\* a partition the producer writes: name, cardinality, entry size
PartChoices ==
    { [name |-> "scope_desc",   cardinality |-> 1, entry_size |-> 8],
      [name |-> "scope_desc",   cardinality |-> MaxCardinality, entry_size |-> 4],
      [name |-> "heap_expr",    cardinality |-> MaxCardinality, entry_size |-> 4],
      [name |-> "name_guide",   cardinality |-> 0, entry_size |-> 4],
      [name |-> "scope_member", cardinality |-> 1, entry_size |-> 4] }

\* the partitions the producer writes after the first one
LaterPartChoices ==
    { [name |-> "scope_desc", cardinality |-> MaxCardinality, entry_size |-> 4],
      [name |-> "name_guide", cardinality |-> 0, entry_size |-> 4] }

PartLists ==
    UNION { { parts \in [ 1 .. n -> PartChoices ] :
                \A i \in 2 .. n : parts[i] \in LaterPartChoices } : n \in 0 .. MaxPartitions }

PartBytes(p) == p.cardinality * p.entry_size

\* payload of a partition: the words the producer chose for it, or else the
\* 4-byte words 0, 1, 2, 0, ...
Payload(p) ==
    IF "words" \in DOMAIN p
    THEN Concat([ j \in 1 .. Len(p.words) |-> LE(p.words[j]) ])
    ELSE Concat([ j \in 1 .. (PartBytes(p) \div WordBytes) |-> LE((j - 1) % 3) ])

\* string table: every partition's name, NUL-terminated, one copy per descriptor
StringTable(parts) ==
    Concat([ i \in 1 .. Len(parts) |-> PartitionNameBytes[parts[i].name] \o <<0>> ])

NameOffset(parts, i) ==
    SumSeq([ j \in 1 .. (i - 1) |-> Len(PartitionNameBytes[parts[j].name]) + 1 ])

DataOffset(parts, dataStart, i) ==
    dataStart + SumSeq([ j \in 1 .. (i - 1) |-> PartBytes(parts[j]) ])

Layouts == { "toc_last", "toc_first" }

ProducedBlob(parts, layout) ==
    LET n        == Len(parts)
        tocBytes == n * SizeofPartitionSummary
        strtab   == StringTable(parts)
        tocAt    == IF layout = "toc_first" THEN SizeofStructure
                    ELSE SizeofStructure + Len(strtab)
                         + SumSeq([ j \in 1 .. n |-> PartBytes(parts[j]) ])
        stbAt    == IF layout = "toc_first" THEN SizeofStructure + tocBytes
                    ELSE SizeofStructure
        dataAt   == stbAt + Len(strtab)
        toc      == Concat([ i \in 1 .. n |->
                        MakeSummary(NameOffset(parts, i), DataOffset(parts, dataAt, i),
                                    parts[i].cardinality, parts[i].entry_size) ])
        payload  == Concat([ i \in 1 .. n |-> Payload(parts[i]) ])
        head     == CANONICAL_FILE_SIGNATURE \o MakeHeader(tocAt, n, stbAt, Len(strtab), 0)
    IN  IF layout = "toc_first" THEN head \o toc \o strtab \o payload
        ELSE head \o strtab \o payload \o toc

ProducedBlobs == { ProducedBlob(parts, l) : parts \in PartLists, l \in Layouts }

\* overwrite the field at byte offset o with value v
PokeWord(b, o, v) ==
    [ i \in 1 .. Len(b) |-> IF i - 1 \in FieldBytes(o) THEN LE(v)[i - o] ELSE b[i] ]

PokeByte(b, o, v) == [ i \in 1 .. Len(b) |-> IF i - 1 = o THEN v ELSE b[i] ]

Truncate(b) == SubSeq(b, 1, Len(b) - 1)

BadSignature(b) == PokeByte(b, 0, (b[1] + 1) % ByteBase)

\* partition_count replaced by another count whose TOC still lies in the blob
CountTampered(b) ==
    { PokeWord(b, HeaderFieldOffset.partition_count, k) :
        k \in { c \in 0 .. (MaxPartitions + 1) :
                  /\ c # header(b, 0).partition_count
                  /\ header(b, 0).toc + c * SizeofPartitionSummary <= Len(b) } }

StringTableSizeTampered(b) ==
    { PokeWord(b, HeaderFieldOffset.string_table_size, v) :
        v \in { w \in { header(b, 0).string_table_size - 1,
                        header(b, 0).string_table_size + 1 } : w \in 0 .. (WordMod - 1) } }

\* the offset of the first descriptor replaced by one far outside the blob
OffsetTampered(b) ==
    IF header(b, 0).partition_count = 0 THEN {}
    ELSE { PokeWord(b, header(b, 0).toc + SummaryFieldOffset.offset, Len(b) + 7) }

\* the name of the first descriptor replaced by the text offset just past
\* the string table
NameTampered(b) ==
    IF header(b, 0).partition_count = 0 THEN {}
    ELSE { PokeWord(b, header(b, 0).toc + SummaryFieldOffset.name,
                    header(b, 0).string_table_size) }

\* a header-only blob whose string table holds the bytes of two descriptors
\* with very large payload sizes and different names
WrapParts ==
    MakeSummary(0, 0, WordMod - 4, WordMod - 4) \o MakeSummary(9, 0, 8, WordMod - 6)

WrapBlob ==
    CANONICAL_FILE_SIGNATURE
    \o MakeHeader(SizeofStructure, 0, SizeofStructure, Len(WrapParts), 0)
    \o WrapParts

\* the blob cut inside the fixed prefix
Shortened(b) ==
    { SubSeq(b, 1, n) : n \in { 0, SignatureSize - 1, SignatureSize, SizeofStructure - 1 } }

PristineBlobs == ProducedBlobs \cup { WrapBlob }

Tampers ==
    { "none", "bad_signature", "bad_signature_truncated", "truncated",
      "partition_count", "string_table_size", "offset", "name", "shortened" }

\* the blobs a pristine blob b turns into under tamper t
Tampered(b, t) ==
    CASE t = "none"                    -> { b }
      [] t = "bad_signature"           -> { BadSignature(b) }
      [] t = "bad_signature_truncated" -> { BadSignature(Truncate(b)) }
      [] t = "truncated"               -> { Truncate(b) }
      [] t = "partition_count"         -> CountTampered(b)
      [] t = "string_table_size"       -> StringTableSizeTampered(b)
      [] t = "offset"                  -> OffsetTampered(b)
      [] t = "name"                    -> NameTampered(b)
      [] t = "shortened"               -> IF Len(b) = SizeofStructure THEN Shortened(b) ELSE {}

(***************************************************************************)
(* Well-formed files with scope descriptors and trait partitions.  A trait *)
(* partition holds (decl, trait) records; a scope descriptor is a Sequence *)
(* (start, cardinality).                                                   *)
(***************************************************************************)
\* the words of a list of records
Words(records) == Concat(records)

\* trait.attribute: (1, 1), (1, 2), ..., then (2, 1)
AttributeRecords ==
    [ j \in 1 .. (MaxCardinality + 1) |-> IF j <= MaxCardinality THEN << 1, j >> ELSE << 2, 1 >> ]

\* .msvc.trait.decl-attrs: (1, 1), (2, 1), (1, 1), ...
MsvcRecords == [ j \in 1 .. MaxCardinality |-> << ((j - 1) % 2) + 1, 1 >> ]

\* trait.deprecated: (1, 1), (1, 2), ..., then (2, MaxCardinality + 1)
DeprecatedRecords ==
    [ j \in 1 .. (MaxCardinality + 1) |->
        IF j <= MaxCardinality THEN << 1, j >> ELSE << 2, MaxCardinality + 1 >> ]

\* trait.friend: (1, {0, 1}), (1, {1, 1}), ..., then (2, {0, 0})
FriendRecords ==
    [ j \in 1 .. (MaxCardinality + 1) |->
        IF j <= MaxCardinality THEN << 1, j - 1, 1 >> ELSE << 2, 0, 0 >> ]

\* scope.desc with n descriptors {0, 0}, {1, 1}, ...
ScopeRecords(n) == [ j \in 1 .. n |-> << j - 1, j - 1 >> ]

TraitPart(name, records, entry_size) ==
    [ name |-> name, cardinality |-> Len(records), entry_size |-> entry_size,
      words |-> Words(records) ]

\* which partitions the producer wrote, and header.global_scope
TraitFiles ==
    { f \in [ attrs  : { "both", "attribute", "msvc", "neither" },
              others : BOOLEAN,
              scope  : { "absent", "one", "one_beyond", "many" } ] :
        << f.attrs, f.scope >> \in { << "both", "one" >>, << "attribute", "many" >>,
                                     << "msvc", "one_beyond" >>, << "neither", "absent" >> } }

TraitParts(f) ==
    (IF f.scope = "absent" THEN <<>>
     ELSE IF f.scope = "many" THEN << TraitPart("scope_desc", ScopeRecords(MaxCardinality), 8) >>
     ELSE << TraitPart("scope_desc", ScopeRecords(1), 8) >>)
    \o (IF f.attrs \in { "both", "attribute" }
        THEN << TraitPart("trait_attribute", AttributeRecords, 8) >> ELSE <<>>)
    \o (IF f.others
        THEN << [name |-> "heap_expr", cardinality |-> MaxCardinality, entry_size |-> 4],
                TraitPart("trait_deprecated", DeprecatedRecords, 8),
                TraitPart("trait_friend", FriendRecords, 12),
                \* scope.member: Declarations with the indexes MaxCardinality + 1, ..., 1
                TraitPart("scope_member",
                          [ j \in 1 .. (MaxCardinality + 1) |-> << MaxCardinality + 2 - j >> ], 4),
                \* trait.specialization: (1, {1, MaxCardinality}), (2, {0, 0})
                TraitPart("trait_specialization",
                          << << 1, 1, MaxCardinality >>, << 2, 0, 0 >> >>, 12) >>
        ELSE <<>>)
    \o (IF f.attrs \in { "both", "msvc" }
        THEN << TraitPart("msvc_decl_attrs", MsvcRecords, 8) >> ELSE <<>>)

GlobalScopeOf(f) ==
    CASE f.scope = "many"       -> MaxCardinality - 1
      [] f.scope = "one_beyond" -> 1
      [] OTHER                  -> 0

TraitBlob(f) ==
    PokeWord(ProducedBlob(TraitParts(f), "toc_last"), HeaderFieldOffset.global_scope,
             GlobalScopeOf(f))

TraitBlobs == { TraitBlob(f) : f \in TraitFiles }

(***************************************************************************)
(* File::Impl::Impl, as the bytes it reads and the way it ends.            *)
(***************************************************************************)
RangeOf(f) == { f[i] : i \in DOMAIN f }

\* the bytes get_string + string_view touch for the name of descriptor p
NameReads(b, g, p) ==
    LET o == get_string(b, g, p.name)
        e == StrEnd(b, g, o)
    IN  IF e = -1 THEN o .. Len(b) ELSE o .. e

SignatureReads == 0 .. (SignatureSize - 1)

CalcSizeReads(b, g) ==
    FieldBytes(HeaderFieldOffset.string_table_size)
    \cup FieldBytes(HeaderFieldOffset.toc)
    \cup FieldBytes(HeaderFieldOffset.partition_count)
    \cup UNION { FieldBytes(SummaryAddress(b, g, i) + SummaryFieldOffset.cardinality)
                 \cup FieldBytes(SummaryAddress(b, g, i) + SummaryFieldOffset.entry_size) :
                 i \in 1 .. header(b, g).partition_count }

TocMapReads(b, g) ==
    FieldBytes(HeaderFieldOffset.toc)
    \cup FieldBytes(HeaderFieldOffset.partition_count)
    \cup UNION { FieldBytes(SummaryAddress(b, g, i) + SummaryFieldOffset.name)
                 \cup FieldBytes(HeaderFieldOffset.string_table_bytes)
                 \cup NameReads(b, g, table_of_contents(b, g)[i]) :
                 i \in 1 .. header(b, g).partition_count }

\* the constructor with the size check ahead of the signature check
ImplOutcome_SizeFirst(b, g) ==
    IF calc_size(b, g) # Len(b) % SizeMod THEN "corrupted_file"
    ELSE IF signature(b, g) # CANONICAL_FILE_SIGNATURE THEN "bad_signature"
    ELSE IF \E p \in RangeOf(table_of_contents(b, g)) :
                StrEnd(b, g, get_string(b, g, p.name)) = -1 THEN "fault"
    ELSE "ok"

\* how the constructor ends when reads outside the blob yield g
ImplOutcome(b, g) ==
    IF signature(b, g) # CANONICAL_FILE_SIGNATURE THEN "bad_signature"
    ELSE IF calc_size(b, g) # Len(b) % SizeMod THEN "corrupted_file"
    ELSE IF \E p \in RangeOf(table_of_contents(b, g)) :
                StrEnd(b, g, get_string(b, g, p.name)) = -1 THEN "fault"
    ELSE "ok"

\* the bytes the constructor reads on that path
ImplReads(b, g) ==
    IF signature(b, g) # CANONICAL_FILE_SIGNATURE THEN SignatureReads
    ELSE IF calc_size(b, g) # Len(b) % SizeMod THEN SignatureReads \cup CalcSizeReads(b, g)
    ELSE SignatureReads \cup CalcSizeReads(b, g) \cup TocMapReads(b, g)

\* unordered_map::emplace: inserts only when the key is not there yet
emplace(m, k, v) == IF k \in DOMAIN m THEN m ELSE m @@ (k :> v)

\* the loop of the constructor over table_of_contents(): descriptors i .. n
RECURSIVE BuildTocMap(_, _, _, _)
BuildTocMap(b, g, i, m) ==
    IF i > header(b, g).partition_count THEN m
    ELSE BuildTocMap(b, g, i + 1,
            emplace(m, StringView(b, g, get_string(b, g, table_of_contents(b, g)[i].name)),
                    SummaryAddress(b, g, i)))

(***************************************************************************)
(* Partition resolution.  A call yields a partition (data pointer and      *)
(* length), the absent optional, the out_of_range exception of             *)
(* unordered_map::at ("missing partition"), or stops at a failed assert.   *)
(***************************************************************************)
\* sizeof(T) of the record types the modelled accessors use
SizeofT ==
    [ Sequence |-> 8, Declaration |-> 4, ExprIndex |-> 4, DeclIndex |-> 4,
      AttrTrait     |-> 8,     \* AssociatedTrait<AttrIndex>
      TextTrait     |-> 8,     \* AssociatedTrait<TextOffset>
      SequenceTrait |-> 12 ]   \* AssociatedTrait<Sequence>

RecordTypes == DOMAIN SizeofT

PartitionOf(data, size) == [kind |-> "partition", data |-> data, size |-> size, val |-> <<>>]
Absent     == [kind |-> "absent", data |-> -1, size |-> -1, val |-> <<>>]
Missing    == [kind |-> "missing_partition", data |-> -1, size |-> -1, val |-> <<>>]
AssertFail == [kind |-> "assert_fail", data |-> -1, size |-> -1, val |-> <<>>]

\* get_partition<T>(PartitionSummary const*)
get_partition(b, g, ndebug, summary, T) ==
    LET partition == ReadSummary(b, g, summary)
    IN  IF ~ndebug /\ partition.entry_size # SizeofT[T] THEN AssertFail
        ELSE PartitionOf(get_raw_pointer(partition.offset), raw_count(partition.cardinality))

\* try_get_partition<T>(name)
try_get_partition(b, g, ndebug, toc_map, name, T) ==
    IF name \notin DOMAIN toc_map THEN Absent
    ELSE get_partition(b, g, ndebug, toc_map[name], T)

\* get_partition<T>(name) with operator[] in place of at(): an unknown name
\* yields a default partition
get_partition_named_Default(b, g, ndebug, toc_map, name, T) ==
    IF name \notin DOMAIN toc_map THEN PartitionOf(get_raw_pointer(0), 0)
    ELSE get_partition(b, g, ndebug, toc_map[name], T)

\* get_partition<T>(name): table_of_contents_.at(name)
get_partition_named(b, g, ndebug, toc_map, name, T) ==
    IF name \notin DOMAIN toc_map THEN Missing
    ELSE get_partition(b, g, ndebug, toc_map[name], T)

\* enum class FilePartitionCache : uint32_t, the enumerators in the order of
\* their declaration; the value of an enumerator is its position less one
FilePartitionCache ==
    << "Declarations", "ScopeDeclarations", "TemplateDeclarations",
       "PartialSpecializations", "Specializations", "UsingDeclarations",
       "Enumerations", "Enumerators", "AliasDeclarations", "DeclReferences",
       "Functions", "Methods", "Constructors", "Destructors", "Variables",
       "Parameters", "Fields", "Friends", "Concepts",
       "IntrinsicDeclarations", "SpecializationForms", "FundamentalTypes",
       "DesignatedTypes", "TorTypes", "SyntacticTypes", "ExpansionTypes",
       "PointerTypes", "FunctionTypes", "MethodTypes", "ArrayTypes",
       "BaseTypes", "TupleTypes", "LvalueReferences", "RvalueReferences",
       "QualifiedTypes", "ForallTypes", "SyntaxTypes", "PlaceholderTypes",
       "TypenameTypes", "DecltypeTypes", "BasicAttributes",
       "ScopedAttributes", "LabeledAttributes", "CalledAttributes",
       "ExpandedAttributes", "FactoredAttributes", "ElaboratedAttributes",
       "TupleAttributes", "LiteralExpressions", "TypeExpressions",
       "DeclExpressions", "UnqualifiedIdExpressions", "TemplateIds",
       "TemplateReferences", "MonadExpressions", "DyadExpressions",
       "StringExpressions", "CallExpressions", "SizeofExpressions",
       "AlignofExpressions", "RequiresExpressions", "TupleExpressions",
       "PathExpressions", "ReadExpressions", "SyntaxTreeExpressions",
       "ExpressionLists", "QualifiedNameExpressions",
       "PackedTemplateArguments", "ProductValueTypeExpressions",
       "SubojectValueExpressions", "StringLiteralExpressions", "TypeHeap",
       "ExprHeap", "AttrHeap", "SyntaxHeap", "OperatorNames",
       "ConversionNames", "LiteralNames", "TemplateNames",
       "SpecializationNames", "SourceFileNames", "DeductionGuideNames",
       "UnilevelCharts", "MultilevelCharts", "IntegerLiterals", "FpLiterals",
       "SimpleTypeSpecifiers", "DecltypeSpecifiers",
       "TypeSpecifierSeqSyntaxTrees", "DeclSpecifierSeqSyntaxTrees",
       "TypeidSyntaxTrees", "DeclaratorSyntaxTrees",
       "PointerDeclaratorSyntaxTrees", "FunctionDeclaratorSyntaxTrees",
       "ParameterDeclaratorSyntaxTrees", "ExpressionSyntaxTrees",
       "RequiresClauseSyntaxTrees", "SimpleRequirementSyntaxTrees",
       "TypeRequirementSyntaxTrees", "NestedRequirementSyntaxTrees",
       "CompoundRequirementSyntaxTrees", "RequirementBodySyntaxTrees",
       "TypeTemplateArgumentSyntaxTrees", "TemplateArgumentListSyntaxTrees",
       "TemplateidSyntaxTrees", "TypeTraitIntrinsicSyntaxTrees",
       "TupleSyntaxTrees", "ImportedModules", "ExportedModules",
       "DeductionGuides", "Num" >>

\* the accessors of File that go through get_and_cache_partition, in the
\* order of their definition: << accessor, record type T, partition name
\* (T::PartitionName when the accessor names none), cache_type >>
CachedAccessors ==
    << << "declarations", "Declaration", "Declaration::PartitionName", "Declarations" >>,
       << "scope_declarations", "ScopeDeclaration", "ScopeDeclaration::PartitionName", "ScopeDeclarations" >>,
       << "template_declarations", "TemplateDeclaration", "TemplateDeclaration::PartitionName", "TemplateDeclarations" >>,
       << "partial_specializations", "PartialSpecialization", "PartialSpecialization::PartitionName", "PartialSpecializations" >>,
       << "specializations", "Specialization", "Specialization::PartitionName", "Specializations" >>,
       << "using_declarations", "UsingDeclaration", "UsingDeclaration::PartitionName", "UsingDeclarations" >>,
       << "enumerations", "Enumeration", "Enumeration::PartitionName", "Enumerations" >>,
       << "enumerators", "Enumerator", "Enumerator::PartitionName", "Enumerators" >>,
       << "alias_declarations", "AliasDeclaration", "AliasDeclaration::PartitionName", "AliasDeclarations" >>,
       << "decl_references", "DeclReference", "DeclReference::PartitionName", "DeclReferences" >>,
       << "functions", "FunctionDeclaration", "FunctionDeclaration::PartitionName", "Functions" >>,
       << "methods", "MethodDeclaration", "MethodDeclaration::PartitionName", "Methods" >>,
       << "constructors", "Constructor", "Constructor::PartitionName", "Constructors" >>,
       << "destructors", "Destructor", "Destructor::PartitionName", "Destructors" >>,
       << "variables", "VariableDeclaration", "VariableDeclaration::PartitionName", "Variables" >>,
       << "parameters", "ParameterDeclaration", "ParameterDeclaration::PartitionName", "Parameters" >>,
       << "fields", "FieldDeclaration", "FieldDeclaration::PartitionName", "Fields" >>,
       << "friends", "FriendDeclaration", "FriendDeclaration::PartitionName", "Friends" >>,
       << "concepts", "Concept", "Concept::PartitionName", "Concepts" >>,
       << "intrinsic_declarations", "IntrinsicDeclaration", "IntrinsicDeclaration::PartitionName", "IntrinsicDeclarations" >>,
       << "specialization_forms", "SpecializationForm", "SpecializationForm::PartitionName", "SpecializationForms" >>,
       << "fundamental_types", "FundamentalType", "FundamentalType::PartitionName", "FundamentalTypes" >>,
       << "designated_types", "DesignatedType", "DesignatedType::PartitionName", "DesignatedTypes" >>,
       << "tor_types", "TorType", "TorType::PartitionName", "TorTypes" >>,
       << "syntactic_types", "SyntacticType", "SyntacticType::PartitionName", "SyntacticTypes" >>,
       << "expansion_types", "ExpansionType", "ExpansionType::PartitionName", "ExpansionTypes" >>,
       << "pointer_types", "PointerType", "PointerType::PartitionName", "PointerTypes" >>,
       << "function_types", "FunctionType", "FunctionType::PartitionName", "FunctionTypes" >>,
       << "method_types", "MethodType", "MethodType::PartitionName", "MethodTypes" >>,
       << "array_types", "ArrayType", "ArrayType::PartitionName", "ArrayTypes" >>,
       << "base_types", "BaseType", "BaseType::PartitionName", "BaseTypes" >>,
       << "tuple_types", "TupleType", "TupleType::PartitionName", "TupleTypes" >>,
       << "lvalue_references", "LvalueReference", "LvalueReference::PartitionName", "LvalueReferences" >>,
       << "rvalue_references", "RvalueReference", "RvalueReference::PartitionName", "RvalueReferences" >>,
       << "qualified_types", "QualifiedType", "QualifiedType::PartitionName", "QualifiedTypes" >>,
       << "forall_types", "ForallType", "ForallType::PartitionName", "ForallTypes" >>,
       << "syntax_types", "SyntaxType", "SyntaxType::PartitionName", "SyntaxTypes" >>,
       << "placeholder_types", "PlaceholderType", "PlaceholderType::PartitionName", "PlaceholderTypes" >>,
       << "typename_types", "TypenameType", "TypenameType::PartitionName", "TypenameTypes" >>,
       << "decltype_types", "DecltypeType", "DecltypeType::PartitionName", "DecltypeTypes" >>,
       << "basic_attributes", "AttrBasic", "AttrBasic::PartitionName", "BasicAttributes" >>,
       << "scoped_attributes", "AttrScoped", "AttrScoped::PartitionName", "ScopedAttributes" >>,
       << "labeled_attributes", "AttrLabeled", "AttrLabeled::PartitionName", "LabeledAttributes" >>,
       << "called_attributes", "AttrCalled", "AttrCalled::PartitionName", "CalledAttributes" >>,
       << "expanded_attributes", "AttrExpanded", "AttrExpanded::PartitionName", "ExpandedAttributes" >>,
       << "factored_attributes", "AttrFactored", "AttrFactored::PartitionName", "FactoredAttributes" >>,
       << "elaborated_attributes", "AttrElaborated", "AttrElaborated::PartitionName", "ElaboratedAttributes" >>,
       << "tuple_attributes", "AttrTuple", "AttrTuple::PartitionName", "TupleAttributes" >>,
       << "literal_expressions", "LiteralExpression", "LiteralExpression::PartitionName", "LiteralExpressions" >>,
       << "type_expressions", "TypeExpression", "TypeExpression::PartitionName", "TypeExpressions" >>,
       << "decl_expressions", "NamedDecl", "NamedDecl::PartitionName", "DeclExpressions" >>,
       << "unqualified_id_expressions", "UnqualifiedId", "UnqualifiedId::PartitionName", "UnqualifiedIdExpressions" >>,
       << "template_ids", "TemplateId", "TemplateId::PartitionName", "TemplateIds" >>,
       << "template_references", "TemplateReference", "TemplateReference::PartitionName", "TemplateReferences" >>,
       << "monad_expressions", "MonadExpression", "MonadExpression::PartitionName", "MonadExpressions" >>,
       << "dyad_expressions", "DyadExpression", "DyadExpression::PartitionName", "DyadExpressions" >>,
       << "string_expressions", "StringExpression", "StringExpression::PartitionName", "StringExpressions" >>,
       << "call_expressions", "CallExpression", "CallExpression::PartitionName", "CallExpressions" >>,
       << "sizeof_expressions", "SizeofExpression", "SizeofExpression::PartitionName", "SizeofExpressions" >>,
       << "alignof_expressions", "AlignofExpression", "AlignofExpression::PartitionName", "AlignofExpressions" >>,
       << "requires_expressions", "RequiresExpression", "RequiresExpression::PartitionName", "RequiresExpressions" >>,
       << "tuple_expressions", "TupleExpression", "TupleExpression::PartitionName", "TupleExpressions" >>,
       << "path_expressions", "PathExpression", "PathExpression::PartitionName", "PathExpressions" >>,
       << "read_expressions", "ReadExpression", "ReadExpression::PartitionName", "ReadExpressions" >>,
       << "syntax_tree_expressions", "SyntaxTreeExpression", "SyntaxTreeExpression::PartitionName", "SyntaxTreeExpressions" >>,
       << "expression_lists", "ExpressionListExpression", "ExpressionListExpression::PartitionName", "ExpressionLists" >>,
       << "qualified_name_expressions", "QualifiedNameExpression", "QualifiedNameExpression::PartitionName", "QualifiedNameExpressions" >>,
       << "packed_template_arguments", "PackedTemplateArguments", "PackedTemplateArguments::PartitionName", "PackedTemplateArguments" >>,
       << "product_value_type_expressions", "ProductValueTypeExpression", "ProductValueTypeExpression::PartitionName", "ProductValueTypeExpressions" >>,
       << "suboject_value_expressions", "SubobjectValueExpression", "SubobjectValueExpression::PartitionName", "SubojectValueExpressions" >>,
       << "string_literal_expressions", "StringLiteral", "StringLiteral::PartitionName", "StringLiteralExpressions" >>,
       << "unilevel_charts", "ChartUnilevel", "ChartUnilevel::PartitionName", "UnilevelCharts" >>,
       << "multilevel_charts", "ChartMultilevel", "ChartMultilevel::PartitionName", "MultilevelCharts" >>,
       << "integer_literals", "IntegerLiteral", "IntegerLiteral::PartitionName", "IntegerLiterals" >>,
       << "fp_literals", "FPLiteral", "FPLiteral::PartitionName", "FpLiterals" >>,
       << "simple_type_specifiers", "SimpleTypeSpecifier", "SimpleTypeSpecifier::PartitionName", "SimpleTypeSpecifiers" >>,
       << "decltype_specifiers", "DecltypeSpecifier", "DecltypeSpecifier::PartitionName", "DecltypeSpecifiers" >>,
       << "type_specifier_seq_syntax_trees", "TypeSpecifierSeq", "TypeSpecifierSeq::PartitionName", "TypeSpecifierSeqSyntaxTrees" >>,
       << "decl_specifier_seq_syntax_trees", "DeclSpecifierSeq", "DeclSpecifierSeq::PartitionName", "DeclSpecifierSeqSyntaxTrees" >>,
       << "typeid_syntax_trees", "TypeIdSyntax", "TypeIdSyntax::PartitionName", "TypeidSyntaxTrees" >>,
       << "declarator_syntax_trees", "DeclaratorSyntax", "DeclaratorSyntax::PartitionName", "DeclaratorSyntaxTrees" >>,
       << "pointer_declarator_syntax_trees", "PointerDeclaratorSyntax", "PointerDeclaratorSyntax::PartitionName", "PointerDeclaratorSyntaxTrees" >>,
       << "function_declarator_syntax_trees", "FunctionDeclaratorSyntax", "FunctionDeclaratorSyntax::PartitionName", "FunctionDeclaratorSyntaxTrees" >>,
       << "parameter_declarator_syntax_trees", "ParameterDeclaratorSyntax", "ParameterDeclaratorSyntax::PartitionName", "ParameterDeclaratorSyntaxTrees" >>,
       << "expression_syntax_trees", "ExpressionSyntax", "ExpressionSyntax::PartitionName", "ExpressionSyntaxTrees" >>,
       << "requires_clause_syntax_trees", "RequiresClauseSyntax", "RequiresClauseSyntax::PartitionName", "RequiresClauseSyntaxTrees" >>,
       << "simple_requirement_syntax_trees", "SimpleRequirementSyntax", "SimpleRequirementSyntax::PartitionName", "SimpleRequirementSyntaxTrees" >>,
       << "type_requirement_syntax_trees", "TypeRequirementSyntax", "TypeRequirementSyntax::PartitionName", "TypeRequirementSyntaxTrees" >>,
       << "nested_requirement_syntax_trees", "NestedRequirementSyntax", "NestedRequirementSyntax::PartitionName", "NestedRequirementSyntaxTrees" >>,
       << "compound_requirement_syntax_trees", "CompoundRequirementSyntax", "CompoundRequirementSyntax::PartitionName", "CompoundRequirementSyntaxTrees" >>,
       << "requirement_body_syntax_trees", "RequirementBodySyntax", "RequirementBodySyntax::PartitionName", "RequirementBodySyntaxTrees" >>,
       << "type_template_argument_syntax_trees", "TypeTemplateArgumentSyntax", "TypeTemplateArgumentSyntax::PartitionName", "TypeTemplateArgumentSyntaxTrees" >>,
       << "template_argument_list_syntax_trees", "TemplateArgumentListSyntax", "TemplateArgumentListSyntax::PartitionName", "TemplateArgumentListSyntaxTrees" >>,
       << "templateid_syntax_trees", "TemplateIdSyntax", "TemplateIdSyntax::PartitionName", "TemplateidSyntaxTrees" >>,
       << "type_trait_intrinsic_syntax_trees", "TypeTraitIntrinsicSyntax", "TypeTraitIntrinsicSyntax::PartitionName", "TypeTraitIntrinsicSyntaxTrees" >>,
       << "tuple_syntax_trees", "TupleSyntax", "TupleSyntax::PartitionName", "TupleSyntaxTrees" >>,
       << "operator_names", "OperatorFunctionName", "OperatorFunctionName::PartitionName", "OperatorNames" >>,
       << "conversion_function_names", "ConversionFunctionName", "ConversionFunctionName::PartitionName", "ConversionNames" >>,
       << "literal_names", "LiteralName", "LiteralName::PartitionName", "LiteralNames" >>,
       << "template_names", "TemplateName", "TemplateName::PartitionName", "TemplateNames" >>,
       << "specialization_names", "SpecializationName", "SpecializationName::PartitionName", "SpecializationNames" >>,
       << "source_file_names", "SourceFileName", "SourceFileName::PartitionName", "SourceFileNames" >>,
       << "deduction_guide_names", "DeductionGuideName", "DeductionGuideName::PartitionName", "DeductionGuideNames" >>,
       << "type_heap", "TypeIndex", "heap.type", "TypeHeap" >>,
       << "expr_heap", "ExprIndex", "heap.expr", "ExprHeap" >>,
       << "attr_heap", "AttrIndex", "heap.attr", "AttrHeap" >>,
       << "syntax_heap", "SyntaxIndex", "heap.syn", "SyntaxHeap" >>,
       << "imported_modules", "ModuleReference", "module.imported", "ImportedModules" >>,
       << "exported_modules", "ModuleReference", "module.exported", "ExportedModules" >>,
       << "deduction_guides", "DeclIndex", "name.guide", "DeductionGuides" >> >>

\* the accessors with expr_heap() on the slot of declarations()
Accessors_SharedSlot ==
    [ declarations     |-> [name |-> "scope_member", T |-> "Declaration", slot |-> 0],
      expr_heap        |-> [name |-> "heap_expr",    T |-> "ExprIndex",   slot |-> 0],
      deduction_guides |-> [name |-> "name_guide",   T |-> "DeclIndex",   slot |-> 109] ]

\* the cached accessors of File that the model calls: partition name,
\* record type and FilePartitionCache slot
Accessors ==
    [ declarations     |-> [name |-> "scope_member", T |-> "Declaration", slot |-> 0],
      expr_heap        |-> [name |-> "heap_expr",    T |-> "ExprIndex",   slot |-> 72],
      deduction_guides |-> [name |-> "name_guide",   T |-> "DeclIndex",   slot |-> 109] ]

AccessorNames == DOMAIN Accessors
CacheSlots == { Accessors[a].slot : a \in AccessorNames }

\* get_and_cache_partition storing an empty partition in the slot when the
\* name is unknown
get_and_cache_partition_CacheFailure(b, g, ndebug, toc_map, cache, name, T, cache_type) ==
    IF cache[cache_type] # NONE
    THEN [ret   |-> PartitionOf(cache[cache_type].data, cache[cache_type].size),
          cache |-> cache,
          hit   |-> TRUE]
    ELSE LET result == get_partition_named(b, g, ndebug, toc_map, name, T)
         IN  [ret   |-> result,
              cache |-> IF result.kind = "partition"
                        THEN [cache EXCEPT ![cache_type] =
                                  [data |-> result.data, size |-> result.size]]
                        ELSE IF result.kind = "missing_partition"
                        THEN [cache EXCEPT ![cache_type] =
                                  [data |-> get_raw_pointer(0), size |-> 0]]
                        ELSE cache,
              hit   |-> FALSE]

\* get_and_cache_partition keeping one partition at a time: filling a slot
\* empties the others
get_and_cache_partition_Evict(b, g, ndebug, toc_map, cache, name, T, cache_type) ==
    IF cache[cache_type] # NONE
    THEN [ret   |-> PartitionOf(cache[cache_type].data, cache[cache_type].size),
          cache |-> cache,
          hit   |-> TRUE]
    ELSE LET result == get_partition_named(b, g, ndebug, toc_map, name, T)
         IN  [ret   |-> result,
              cache |-> IF result.kind = "partition"
                        THEN [ s \in DOMAIN cache |->
                                 IF s = cache_type
                                 THEN [data |-> result.data, size |-> result.size]
                                 ELSE NONE ]
                        ELSE cache,
              hit   |-> FALSE]

\* get_and_cache_partition resolving and storing anew at every call
get_and_cache_partition_Refresh(b, g, ndebug, toc_map, cache, name, T, cache_type) ==
    LET result == get_partition_named(b, g, ndebug, toc_map, name, T)
    IN  [ret   |-> result,
         cache |-> IF result.kind = "partition"
                   THEN [cache EXCEPT ![cache_type] =
                             [data |-> result.data, size |-> result.size]]
                   ELSE [cache EXCEPT ![cache_type] = NONE],
         hit   |-> FALSE]

\* get_and_cache_partition storing the payload's byte size as the length
get_and_cache_partition_ByteSize(b, g, ndebug, toc_map, cache, name, T, cache_type) ==
    IF cache[cache_type] # NONE
    THEN [ret   |-> PartitionOf(cache[cache_type].data, cache[cache_type].size),
          cache |-> cache,
          hit   |-> TRUE]
    ELSE LET result == get_partition_named(b, g, ndebug, toc_map, name, T)
         IN  [ret   |-> result,
              cache |-> IF result.kind = "partition"
                        THEN [cache EXCEPT ![cache_type] =
                                  [data |-> result.data, size |-> result.size * SizeofT[T]]]
                        ELSE cache,
              hit   |-> FALSE]

\* get_and_cache_partition<T>(name, cache_type): the value returned and the
\* cache table afterwards
get_and_cache_partition(b, g, ndebug, toc_map, cache, name, T, cache_type) ==
    IF cache[cache_type] # NONE
    THEN [ret   |-> PartitionOf(cache[cache_type].data, cache[cache_type].size),
          cache |-> cache,
          hit   |-> TRUE]
    ELSE LET result == get_partition_named(b, g, ndebug, toc_map, name, T)
         IN  [ret   |-> result,
              cache |-> IF result.kind = "partition"
                        THEN [cache EXCEPT ![cache_type] =
                                  [data |-> result.data, size |-> result.size]]
                        ELSE cache,
              hit   |-> FALSE]

\* the accessors of the File of lib/core/src/File.cpp that keep their
\* partition in a std::optional member
MemberAccessors ==
    [ declarations |-> [name |-> "scope_member", T |-> "Declaration"],
      expr_heap    |-> [name |-> "heap_expr",    T |-> "ExprIndex"] ]

MemberAccessorNames == DOMAIN MemberAccessors

\* File::get_partition_with_cache<T>(cache, name): the value returned and
\* the optional afterwards
get_partition_with_cache(b, g, ndebug, toc_map, cache, name, T) ==
    IF cache # NONE
    THEN [ret |-> PartitionOf(cache.data, cache.size), cache |-> cache, hit |-> TRUE]
    ELSE LET result == get_partition_named(b, g, ndebug, toc_map, name, T)
         IN  [ret   |-> result,
              cache |-> IF result.kind = "partition"
                        THEN [data |-> result.data, size |-> result.size]
                        ELSE cache,
              hit   |-> FALSE]

(***************************************************************************)
(* Indexing a partition, and global_scope().                               *)
(***************************************************************************)
Value(v)  == [kind |-> "value", data |-> -1, size |-> -1, val |-> v]
Malformed == [kind |-> "malformed_artifact", data |-> -1, size |-> -1, val |-> <<>>]

\* the words of the record at index i (counted from 0) of a partition of T
ReadRecord(b, g, part, T, i) ==
    [ w \in 1 .. (SizeofT[T] \div WordBytes) |->
        ReadWord(b, g, (part.data - BlobBase) + i * SizeofT[T] + (w - 1) * WordBytes) ]

\* Partition<T, Index>::operator[]: an index outside the partition is a
\* contract violation, an assertion in debug builds and an error otherwise
At(b, g, ndebug, part, T, index) ==
    IF index >= part.size THEN (IF ndebug THEN Malformed ELSE AssertFail)
    ELSE Value(ReadRecord(b, g, part, T, index))

\* File::global_scope() reading the first scope descriptor
global_scope_First(b, g, ndebug, toc_map) ==
    LET scopes == get_partition_named(b, g, ndebug, toc_map,
                                      PartitionNameBytes["scope_desc"], "Sequence")
    IN  IF scopes.kind # "partition" THEN scopes
        ELSE At(b, g, ndebug, scopes, "Sequence", 0)

\* File::global_scope(): scope_descriptors()[header().global_scope]
global_scope(b, g, ndebug, toc_map) ==
    LET scopes == get_partition_named(b, g, ndebug, toc_map,
                                      PartitionNameBytes["scope_desc"], "Sequence")
    IN  IF scopes.kind # "partition" THEN scopes
        ELSE At(b, g, ndebug, scopes, "Sequence", header(b, g).global_scope)

(***************************************************************************)
(* Trait indexes.  An unordered_map is a function from the keys it holds;  *)
(* a std::vector in the attribute map is its elements, and once the map is *)
(* built its buffer address, which depends on the build that allocated it. *)
(***************************************************************************)
\* AssociatedTrait<T>: the record at index i as (decl, trait)
AssociatedTrait(b, g, part, T, i) ==
    LET r == ReadRecord(b, g, part, T, i)
    IN  [decl |-> r[1], trait |-> IF T = "SequenceTrait" THEN << r[2], r[3] >> ELSE r[2]]

\* (*map)[k].push_back(v)
push_back(m, k, v) ==
    IF k \in DOMAIN m THEN [m EXCEPT ![k] = Append(@, v)] ELSE m @@ (k :> << v >>)

\* the assignment keeping the value a key already has
assign_Emplace(m, k, v) == IF k \in DOMAIN m THEN m ELSE m @@ (k :> v)

\* (*map)[k] = v
assign(m, k, v) == IF k \in DOMAIN m THEN [m EXCEPT ![k] = v] ELSE m @@ (k :> v)

\* for (auto attribute : *attributes) map[attribute.decl].push_back(attribute.trait)
RECURSIVE ScanPush(_, _, _, _, _)
ScanPush(b, g, part, m, i) ==
    IF i >= part.size THEN m
    ELSE LET attribute == AssociatedTrait(b, g, part, "AttrTrait", i)
         IN  ScanPush(b, g, part, push_back(m, attribute.decl, attribute.trait), i + 1)

\* for (auto record : *partition) map[record.decl] = record.trait
RECURSIVE ScanAssign(_, _, _, _, _, _)
ScanAssign(b, g, part, T, m, i) ==
    IF i >= part.size THEN m
    ELSE LET record == AssociatedTrait(b, g, part, T, i)
         IN  ScanAssign(b, g, part, T, assign(m, record.decl, record.trait), i + 1)

\* fill_decl_attributes resolving its partition with get_partition
fill_decl_attributes_Required(b, g, ndebug, toc_map, m, partition) ==
    LET attributes == get_partition_named(b, g, ndebug, toc_map, partition, "AttrTrait")
    IN  IF attributes.kind = "partition"
        THEN [kind |-> "ok", map |-> ScanPush(b, g, attributes, m, 0)]
        ELSE [kind |-> attributes.kind, map |-> m]

\* fill_decl_attributes(partition): the map afterwards
fill_decl_attributes(b, g, ndebug, toc_map, m, partition) ==
    LET attributes == try_get_partition(b, g, ndebug, toc_map, partition, "AttrTrait")
    IN  IF attributes.kind = "partition"
        THEN [kind |-> "ok", map |-> ScanPush(b, g, attributes, m, 0)]
        ELSE IF attributes.kind = "absent" THEN [kind |-> "ok", map |-> m]
        ELSE [kind |-> attributes.kind, map |-> m]

\* address of the buffer of the vector that build number n made for decl k
VectorAddress(n, k) == n * WordMod + k

Vectors(m, n) == [ k \in DOMAIN m |-> [data |-> VectorAddress(n, k), elems |-> m[k]] ]

\* the attribute map filled from .msvc.trait.decl-attrs first
BuildAttributes_MsvcFirst(b, g, ndebug, toc_map) ==
    LET first  == fill_decl_attributes(b, g, ndebug, toc_map, <<>>,
                                       PartitionNameBytes["msvc_decl_attrs"])
        second == fill_decl_attributes(b, g, ndebug, toc_map, first.map,
                                       PartitionNameBytes["trait_attribute"])
    IN  IF first.kind # "ok" THEN first ELSE second

\* the body of the if of Impl::trait_declaration_attributes(): the two fills
BuildAttributes(b, g, ndebug, toc_map) ==
    LET first  == fill_decl_attributes(b, g, ndebug, toc_map, <<>>,
                                       PartitionNameBytes["trait_attribute"])
        second == fill_decl_attributes(b, g, ndebug, toc_map, first.map,
                                       PartitionNameBytes["msvc_decl_attrs"])
    IN  IF first.kind # "ok" THEN first ELSE second

\* Impl::trait_declaration_attributes() building its map on every call
trait_declaration_attributes_Rebuild(b, g, ndebug, toc_map, opt, n) ==
    LET built == BuildAttributes(b, g, ndebug, toc_map)
    IN  [kind |-> built.kind, opt |-> [map |-> Vectors(built.map, n + 1)], builds |-> n + 1]

\* Impl::trait_declaration_attributes(): the optional afterwards, the number
\* of builds so far, and whether the call got through
trait_declaration_attributes(b, g, ndebug, toc_map, opt, n) ==
    IF opt # NONE THEN [kind |-> "ok", opt |-> opt, builds |-> n]
    ELSE LET built == BuildAttributes(b, g, ndebug, toc_map)
         IN  [kind |-> built.kind, opt |-> [map |-> Vectors(built.map, n + 1)],
              builds |-> n + 1]

\* a trait map of (decl, trait) records scanned from one partition
BuildAssigned(b, g, ndebug, toc_map, partition, T) ==
    LET records == try_get_partition(b, g, ndebug, toc_map, partition, T)
    IN  IF records.kind = "partition"
        THEN [kind |-> "ok", map |-> ScanAssign(b, g, records, T, <<>>, 0)]
        ELSE IF records.kind = "absent" THEN [kind |-> "ok", map |-> <<>>]
        ELSE [kind |-> records.kind, map |-> <<>>]

\* Impl::trait_deprecation_texts()
trait_deprecation_texts(b, g, ndebug, toc_map, opt, n) ==
    IF opt # NONE THEN [kind |-> "ok", opt |-> opt, builds |-> n]
    ELSE LET built == BuildAssigned(b, g, ndebug, toc_map,
                                    PartitionNameBytes["trait_deprecated"], "TextTrait")
         IN  [kind |-> built.kind, opt |-> [map |-> built.map], builds |-> n + 1]

\* Impl::trait_friendship_of_class() handing out an empty map once built
trait_friendship_of_class_Emptied(b, g, ndebug, toc_map, opt, n) ==
    IF opt # NONE THEN [kind |-> "ok", opt |-> [map |-> <<>>], builds |-> n]
    ELSE LET built == BuildAssigned(b, g, ndebug, toc_map,
                                    PartitionNameBytes["trait_friend"], "SequenceTrait")
         IN  [kind |-> built.kind, opt |-> [map |-> built.map], builds |-> n + 1]

\* Impl::trait_friendship_of_class()
trait_friendship_of_class(b, g, ndebug, toc_map, opt, n) ==
    IF opt # NONE THEN [kind |-> "ok", opt |-> opt, builds |-> n]
    ELSE LET built == BuildAssigned(b, g, ndebug, toc_map,
                                    PartitionNameBytes["trait_friend"], "SequenceTrait")
         IN  [kind |-> built.kind, opt |-> [map |-> built.map], builds |-> n + 1]

\* the values of a default-constructed RetType
EmptySpan     == [data |-> 0, size |-> 0, elems |-> <<>>]
NullText      == 0
EmptySequence == << 0, 0 >>

\* std::span<AttrIndex const> over a vector
AsSpan(v) == [data |-> v.data, size |-> Len(v.elems), elems |-> v.elems]

\* get_value with map.at(declaration)
get_value_At(declaration, map, default) ==
    IF declaration \in DOMAIN map THEN Value(map[declaration]) ELSE Missing

\* get_value<RetType>(declaration, map)
get_value(declaration, map, default) ==
    IF declaration \in DOMAIN map THEN Value(map[declaration]) ELSE Value(default)

\* the trait queries of File: Impl map, partition scanned first, record type
TraitQueries ==
    [ trait_declaration_attributes |-> [name |-> "trait_attribute",  T |-> "AttrTrait"],
      trait_deprecation_texts      |-> [name |-> "trait_deprecated", T |-> "TextTrait"],
      trait_friendship_of_class    |-> [name |-> "trait_friend",     T |-> "SequenceTrait"] ]

TraitQueryNames == DOMAIN TraitQueries

\* the DeclIndex values queried: one with records, one with none
QueryDecls == { 1, 3 }

(***************************************************************************)
(* Slices.  A Sequence is (start, cardinality); slice and the trait query  *)
(* for the specializations of a template are members of Partition and File *)
(* declared in ifc/File.h.                                                 *)
(***************************************************************************)
\* the Sequences handed to the slicing functions
Sequences ==
    { << 0, 0 >>, << 0, MaxCardinality >>, << 1, MaxCardinality >>, << 1, MaxCardinality + 1 >> }

\* Partition<T, Index>::slice(seq): the sub-range, checked against the
\* cardinality like operator[]
slice(ndebug, part, T, seq) ==
    IF seq[1] + seq[2] > part.size THEN (IF ndebug THEN Malformed ELSE AssertFail)
    ELSE PartitionOf(part.data + seq[1] * SizeofT[T], seq[2])

\* the slicing functions handing out a slice of the other one's partition
Slicers_Swapped ==
    [ get_declarations              |-> "expr_heap",
      get_tuple_expression_elements |-> "declarations" ]

\* get_declarations(file, scope) and get_tuple_expression_elements(file,
\* tuple): the accessor whose partition is sliced
Slicers ==
    [ get_declarations              |-> "declarations",
      get_tuple_expression_elements |-> "expr_heap" ]

\* File::trait_template_specializations(declaration): the Sequence of the
\* trait.specialization record of the declaration, the empty Sequence
\* when it has none
trait_template_specializations(b, g, ndebug, toc_map, declaration) ==
    LET built == BuildAssigned(b, g, ndebug, toc_map,
                               PartitionNameBytes["trait_specialization"], "SequenceTrait")
    IN  IF built.kind # "ok" THEN AssertFail
        ELSE get_value(declaration, built.map, EmptySequence)

\* template_specializations() wrapping the position of each element
template_specializations_Position(b, g, ndebug, ifc, declarations, seq) ==
    LET specializations == slice(ndebug, declarations, "Declaration", seq)
    IN  IF specializations.kind # "partition" THEN specializations
        ELSE Value([ k \in 1 .. specializations.size |->
                       [ifc |-> ifc, index |-> seq[1] + k - 1] ])

\* TemplateDeclaration::template_specializations() on the partition
\* declarations() returned and the Sequence the trait query returned: one
\* reflifc::Declaration{ifc, decl.index} per element of the slice
template_specializations(b, g, ndebug, ifc, declarations, seq) ==
    LET specializations == slice(ndebug, declarations, "Declaration", seq)
    IN  IF specializations.kind # "partition" THEN specializations
        ELSE Value([ k \in 1 .. specializations.size |->
                       [ifc |-> ifc,
                        index |-> ReadRecord(b, g, specializations, "Declaration", k - 1)[1]] ])

(***************************************************************************)
(* File::get_imported_module (lib/core/src/File.cpp).  The environment is  *)
(* outside the reader: a call passes it a name and it answers with a File. *)
(***************************************************************************)
\* is_null(TextOffset): the null bit pattern
is_null(offset) == offset = 0

\* the character '/'
Colon_Slash == << 47 % ByteBase >>

\* the character ':'
Colon == << 58 % ByteBase >>

\* std::string(get_string(offset)): the characters up to the NUL
String(b, g, offset) == StringView(b, g, get_string(b, g, offset))

\* get_imported_module naming a global module by its owner string
get_imported_module_OwnerString(b, g, module, answer) ==
    IF is_null(module.owner)
    THEN [calls |-> << String(b, g, module.owner) >>, file |-> answer]
    ELSE LET name == String(b, g, module.owner)
         IN  [calls |-> << IF ~is_null(module.partition)
                           THEN name \o Colon \o String(b, g, module.partition)
                           ELSE name >>,
              file |-> answer]

\* File::get_imported_module(module): the names passed to
\* env_->get_module_by_name, in order, and the File returned, where answer is
\* what the environment answers
get_imported_module(b, g, module, answer) ==
    IF is_null(module.owner)
    THEN [calls |-> << String(b, g, module.partition) >>, file |-> answer]
    ELSE LET name == String(b, g, module.owner)
         IN  [calls |-> << IF ~is_null(module.partition)
                           THEN name \o Colon \o String(b, g, module.partition)
                           ELSE name >>,
              file |-> answer]

\* the Files the environment knows
EnvFiles == { "std.ifc", "other.ifc" }

\* text offset of the string that follows the one at text offset o, or -1
NextString(b, o) ==
    LET h == header(b, 0)
        e == StrEnd(b, 0, h.string_table_bytes + o)
    IN  IF e >= 0 /\ (e + 1) - h.string_table_bytes < h.string_table_size
        THEN (e + 1) - h.string_table_bytes ELSE -1

\* the ModuleReferences handed to get_imported_module: owner and partition
\* are null or the offset of a string of the string table
ModuleReferences(b) ==
    IF header(b, 0).string_table_size = 0 THEN {}
    ELSE LET second == NextString(b, 0)
             third  == IF second = -1 THEN -1 ELSE NextString(b, second)
         IN  [ owner     : { 0 } \cup ({ second } \ { -1 }),
               partition : { 0 } \cup ({ third } \ { -1 }) ]

\* the names and record types the resolver is asked for directly
QueryNames == { "scope_desc", "scope_member", "unknown" }
QueryTypes == { "Sequence", "ExprIndex" }

VARIABLES
    pristine,             \* the blob as the producer wrote it
    tamper,               \* what was done to it before it reached the reader
    blob,                 \* blob_: the bytes handed to the constructor
    NDEBUG,               \* whether assert() is compiled out
    pc,                   \* "closed", "open" (a File exists), "dead" or "aborted"
    open_result,          \* how the constructor ended
    oob,                  \* the byte a read outside the blob yields
    touched,              \* blob offsets the constructor read
    table_of_contents_,   \* name bytes -> address of its PartitionSummary
    cached_partitions_,   \* FilePartitionCache slot -> NONE or (data, size)
    cached_members,       \* File.cpp: cached_<accessor>_ optionals
    ret,                  \* the last call and what it yielded
    returned,             \* accessor -> the (data, size) pairs it has returned
    trait_declaration_attributes_,   \* NONE or the built map: decl -> vector
    trait_deprecation_texts_,        \* NONE or the built map: decl -> text offset
    trait_friendship_of_class_,      \* NONE or the built map: decl -> Sequence
    builds,               \* trait query -> how many times its map was built
    spans,                \* decl -> the spans trait_declaration_attributes returned
    threads,              \* thread -> where it is in the call it is making
    shared,               \* whether the File was handed to the other threads
    warm,                 \* the operations called before the File was shared
    writes                \* those of them that wrote lazy state after that

vars == << pristine, tamper, blob, NDEBUG, pc, open_result, oob, touched, table_of_contents_,
           cached_partitions_, cached_members, ret, returned,
           trait_declaration_attributes_, trait_deprecation_texts_,
           trait_friendship_of_class_, builds, spans, threads, shared, warm, writes >>

input == << pristine, tamper, blob, NDEBUG >>
opened == << open_result, oob, touched, table_of_contents_ >>
traits == << trait_declaration_attributes_, trait_deprecation_texts_,
             trait_friendship_of_class_, builds, spans >>
conc == << threads, shared, warm, writes >>

\* the threads that use one File, and a thread that is not inside a call
Threads == { 1, 2 }
Idle == [at |-> "idle", op |-> "none", part |-> 0, i |-> 0, hit |-> FALSE]

\* whether operation op has returned before on this file
Again(op) ==
    IF op \in DOMAIN returned THEN returned[op] # {}
    ELSE IF op \in DOMAIN builds THEN builds[op] > 0
    ELSE FALSE

\* ret: the operation, its partition name and record type, whether a cache
\* served it, whether it is a repeated call, the index it was given, and the
\* value it yielded
Call(op, arg, T, hit, r) ==
    [op |-> op, arg |-> arg, T |-> T, hit |-> hit, again |-> Again(op), index |-> -1] @@ r

Query(op, arg, T, hit, index, r) == [Call(op, arg, T, hit, r) EXCEPT !.index = index]

NoCall ==
    [op |-> "none", arg |-> "none", T |-> "none", hit |-> FALSE, again |-> FALSE,
     index |-> -1] @@ Absent

\* before the constructor runs: no map, every cache and optional empty
Closed ==
    /\ pc = "closed"
    /\ open_result = "none"
    /\ oob = 0
    /\ touched = {}
    /\ table_of_contents_ = <<>>
    /\ cached_partitions_ = [ s \in CacheSlots |-> NONE ]
    /\ cached_members = [ a \in MemberAccessorNames |-> NONE ]
    /\ ret = NoCall
    /\ returned = [ a \in AccessorNames \cup { "File.cpp/" \o m : m \in MemberAccessorNames }
                          \cup { "scope_descriptors", "File.cpp/deduction_guides" } |-> {} ]
    /\ trait_declaration_attributes_ = NONE
    /\ trait_deprecation_texts_ = NONE
    /\ trait_friendship_of_class_ = NONE
    /\ builds = [ q \in TraitQueryNames |-> 0 ]
    /\ spans = [ d \in QueryDecls |-> {} ]
    /\ threads = [ t \in Threads |-> Idle ]
    /\ shared = FALSE
    /\ warm = {}
    /\ writes = {}

Init ==
    /\ pristine \in PristineBlobs
    /\ tamper \in Tampers
    /\ blob \in Tampered(pristine, tamper)
    /\ NDEBUG \in BOOLEAN
    /\ Closed

\* a well-formed file with trait partitions, as the producer wrote it
TraitInit ==
    /\ pristine \in TraitBlobs
    /\ tamper = "none"
    /\ blob = pristine
    /\ NDEBUG \in BOOLEAN
    /\ Closed

\* whether the constructor reads a byte outside the blob
ReadsOutside(b, g) == \E o \in ImplReads(b, g) : o >= Len(b)

\* what an execution of the constructor can be: the byte g that reads outside
\* the blob yield, and whether such a read traps
OpenChoices(b) ==
    { c \in Byte \X BOOLEAN :
        /\ c[2] => ReadsOutside(b, c[1])
        /\ ~ReadsOutside(b, c[1]) => c[1] = 0 }

\* File::File(BlobView) -> Impl::Impl(blob)
Open ==
    /\ pc = "closed"
    /\ \E c \in OpenChoices(blob) :
         LET g       == c[1]
             outcome == IF c[2] THEN "fault" ELSE ImplOutcome(blob, g)
         IN  /\ open_result' = outcome
             /\ oob' = g
             /\ touched' = ImplReads(blob, g)
             /\ table_of_contents_' =
                    IF outcome = "ok" THEN BuildTocMap(blob, g, 1, <<>>) ELSE <<>>
             /\ pc' = IF outcome = "ok" THEN "open" ELSE "dead"
    /\ UNCHANGED << input, conc, cached_partitions_, cached_members, ret, returned, traits >>

\* a call that stops at a failed assert ends the process
AfterCall(r) == IF r.kind = "assert_fail" THEN "aborted" ELSE "open"

Record(hist, key, r) ==
    IF r.kind = "partition" THEN [hist EXCEPT ![key] = @ \cup { << r.data, r.size >> }]
    ELSE hist

\* Impl::try_get_partition<T, Index>(name)
TryGetPartition(n, T) ==
    /\ pc = "open"
    /\ LET r == try_get_partition(blob, oob, NDEBUG, table_of_contents_, PartitionNameBytes[n], T)
       IN  /\ ret' = Call("try_get_partition", n, T, FALSE, r)
           /\ pc' = AfterCall(r)
    /\ UNCHANGED << input, conc, opened, cached_partitions_, cached_members, returned, traits >>

\* Impl::get_partition<T, Index>(name)
GetPartition(n, T) ==
    /\ pc = "open"
    /\ LET r == get_partition_named(blob, oob, NDEBUG, table_of_contents_, PartitionNameBytes[n], T)
       IN  /\ ret' = Call("get_partition", n, T, FALSE, r)
           /\ pc' = AfterCall(r)
    /\ UNCHANGED << input, conc, opened, cached_partitions_, cached_members, returned, traits >>

\* File::scope_descriptors()
ScopeDescriptors ==
    /\ pc = "open"
    /\ LET r == get_partition_named(blob, oob, NDEBUG, table_of_contents_,
                                    PartitionNameBytes["scope_desc"], "Sequence")
       IN  /\ ret' = Call("scope_descriptors", "scope_desc", "Sequence", FALSE, r)
           /\ returned' = Record(returned, "scope_descriptors", r)
           /\ pc' = AfterCall(r)
    /\ UNCHANGED << input, conc, opened, cached_partitions_, cached_members, traits >>

\* File::table_of_contents() handing out the descriptors that follow the
\* header
TableOfContents_AfterHeader ==
    /\ pc = "open"
    /\ \E h \in { header(blob, oob) } :
          ret' = Call("table_of_contents", "none", "PartitionSummary", FALSE,
                      [kind |-> "span",
                       data |-> get_raw_pointer(SizeofStructure),
                       size |-> raw_count(h.partition_count),
                       val  |-> [ i \in 1 .. raw_count(h.partition_count) |->
                                    ReadSummary(blob, oob, SizeofStructure
                                                + (i - 1) * SizeofPartitionSummary) ]])
    /\ UNCHANGED << input, conc, opened, pc, cached_partitions_, cached_members, returned,
                    traits >>

\* File::table_of_contents(): the span of Impl::table_of_contents(), its
\* data pointer, its length and the descriptors it ranges over
TableOfContents ==
    /\ pc = "open"
    /\ \E h \in { header(blob, oob) } :
          ret' = Call("table_of_contents", "none", "PartitionSummary", FALSE,
                      [kind |-> "span",
                       data |-> get_raw_pointer(h.toc),
                       size |-> raw_count(h.partition_count),
                       val  |-> table_of_contents(blob, oob)])
    /\ UNCHANGED << input, conc, opened, pc, cached_partitions_, cached_members, returned,
                    traits >>

\* File.cpp: File::deduction_guides()
FileCppDeductionGuides ==
    /\ pc = "open"
    /\ LET r == get_partition_named(blob, oob, NDEBUG, table_of_contents_,
                                    PartitionNameBytes["name_guide"], "DeclIndex")
       IN  /\ ret' = Call("File.cpp/deduction_guides", "name_guide", "DeclIndex", FALSE, r)
           /\ returned' = Record(returned, "File.cpp/deduction_guides", r)
           /\ pc' = AfterCall(r)
    /\ UNCHANGED << input, conc, opened, cached_partitions_, cached_members, traits >>

\* File::declarations(), File::expr_heap(), File::deduction_guides()
CallAccessor(a) ==
    /\ pc = "open"
    /\ LET acc == Accessors[a]
           c   == get_and_cache_partition(blob, oob, NDEBUG, table_of_contents_,
                      cached_partitions_, PartitionNameBytes[acc.name], acc.T, acc.slot)
       IN  /\ ret' = Call(a, acc.name, acc.T, c.hit, c.ret)
           /\ cached_partitions_' = c.cache
           /\ returned' = Record(returned, a, c.ret)
           /\ pc' = AfterCall(c.ret)
    /\ UNCHANGED << input, conc, opened, cached_members, traits >>

\* File.cpp: File::declarations(), File::expr_heap()
CallMemberAccessor(a) ==
    /\ pc = "open"
    /\ LET acc == MemberAccessors[a]
           c   == get_partition_with_cache(blob, oob, NDEBUG, table_of_contents_,
                      cached_members[a], PartitionNameBytes[acc.name], acc.T)
       IN  /\ ret' = Call("File.cpp/" \o a, acc.name, acc.T, c.hit, c.ret)
           /\ cached_members' = [cached_members EXCEPT ![a] = c.cache]
           /\ returned' = Record(returned, "File.cpp/" \o a, c.ret)
           /\ pc' = AfterCall(c.ret)
    /\ UNCHANGED << input, conc, opened, cached_partitions_, traits >>

\* File::global_scope()
GlobalScope ==
    /\ pc = "open"
    /\ \E r \in { global_scope(blob, oob, NDEBUG, table_of_contents_) } :
           /\ ret' = Query("global_scope", "scope_desc", "Sequence", FALSE,
                           header(blob, oob).global_scope, r)
           /\ pc' = AfterCall(r)
    /\ UNCHANGED << input, conc, opened, cached_partitions_, cached_members, returned, traits >>

\* File::trait_declaration_attributes(declaration)
TraitDeclarationAttributes(d) ==
    /\ pc = "open"
    /\ \E t \in { trait_declaration_attributes(blob, oob, NDEBUG, table_of_contents_,
                     trait_declaration_attributes_, builds["trait_declaration_attributes"]) } :
       \E v \in { IF t.kind # "ok" THEN AssertFail
                  ELSE get_value(d, [ k \in DOMAIN t.opt.map |-> AsSpan(t.opt.map[k]) ],
                                 EmptySpan) } :
           /\ trait_declaration_attributes_' = t.opt
           /\ builds' = [builds EXCEPT !["trait_declaration_attributes"] = t.builds]
           /\ ret' = Query("trait_declaration_attributes", "trait_attribute", "AttrTrait",
                           t.builds = builds["trait_declaration_attributes"], d, v)
           /\ spans' = IF v.kind = "value" THEN [spans EXCEPT ![d] = @ \cup { v.val }]
                       ELSE spans
           /\ pc' = AfterCall(v)
    /\ UNCHANGED << input, conc, opened, cached_partitions_, cached_members, returned,
                    trait_deprecation_texts_, trait_friendship_of_class_ >>

\* File::trait_deprecation_texts(declaration)
TraitDeprecationTexts(d) ==
    /\ pc = "open"
    /\ \E t \in { trait_deprecation_texts(blob, oob, NDEBUG, table_of_contents_,
                     trait_deprecation_texts_, builds["trait_deprecation_texts"]) } :
       \E v \in { IF t.kind # "ok" THEN AssertFail ELSE get_value(d, t.opt.map, NullText) } :
           /\ trait_deprecation_texts_' = t.opt
           /\ builds' = [builds EXCEPT !["trait_deprecation_texts"] = t.builds]
           /\ ret' = Query("trait_deprecation_texts", "trait_deprecated", "TextTrait",
                           t.builds = builds["trait_deprecation_texts"], d, v)
           /\ pc' = AfterCall(v)
    /\ UNCHANGED << input, conc, opened, cached_partitions_, cached_members, returned,
                    trait_declaration_attributes_, trait_friendship_of_class_, spans >>

\* File::trait_friendship_of_class(declaration)
TraitFriendshipOfClass(d) ==
    /\ pc = "open"
    /\ \E t \in { trait_friendship_of_class(blob, oob, NDEBUG, table_of_contents_,
                     trait_friendship_of_class_, builds["trait_friendship_of_class"]) } :
       \E v \in { IF t.kind # "ok" THEN AssertFail
                  ELSE get_value(d, t.opt.map, EmptySequence) } :
           /\ trait_friendship_of_class_' = t.opt
           /\ builds' = [builds EXCEPT !["trait_friendship_of_class"] = t.builds]
           /\ ret' = Query("trait_friendship_of_class", "trait_friend", "SequenceTrait",
                           t.builds = builds["trait_friendship_of_class"], d, v)
           /\ pc' = AfterCall(v)
    /\ UNCHANGED << input, conc, opened, cached_partitions_, cached_members, returned,
                    trait_declaration_attributes_, trait_deprecation_texts_, spans >>

\* File.cpp: File::get_imported_module(module); the environment answers
\* with one of its Files
GetImportedModule(module) ==
    /\ pc = "open"
    /\ \E answer \in EnvFiles :
       \E r \in { get_imported_module(blob, oob, module, answer) } :
             ret' = Query("get_imported_module", "none", "none", FALSE, -1,
                          Value([module |-> module, calls |-> r.calls, answer |-> answer,
                                 file |-> r.file]))
    /\ UNCHANGED << input, conc, opened, pc, cached_partitions_, cached_members, returned, traits >>

Next ==
    \/ Open
    \/ \E n \in QueryNames, T \in QueryTypes : TryGetPartition(n, T)
    \/ \E n \in QueryNames, T \in QueryTypes : GetPartition(n, T)
    \/ ScopeDescriptors
    \/ TableOfContents
    \/ FileCppDeductionGuides
    \/ \E a \in AccessorNames : CallAccessor(a)
    \/ \E a \in MemberAccessorNames : CallMemberAccessor(a)

Spec == Init /\ [][Next]_vars

\* get_declarations(file, scope), get_tuple_expression_elements(file, tuple):
\* the cached accessor, then slice
GetSlice(f, seq) ==
    /\ pc = "open"
    /\ \E acc \in { Accessors[Slicers[f]] } :
       \E c \in { get_and_cache_partition(blob, oob, NDEBUG, table_of_contents_,
                      cached_partitions_, PartitionNameBytes[acc.name], acc.T, acc.slot) } :
       \E r \in { IF c.ret.kind # "partition" THEN c.ret
                  ELSE slice(NDEBUG, c.ret, acc.T, seq) } :
           /\ ret' = Query(f, acc.name, acc.T, c.hit, seq, r)
           /\ cached_partitions_' = c.cache
           /\ returned' = Record(returned, Slicers[f], c.ret)
           /\ pc' = AfterCall(r)
    /\ UNCHANGED << input, conc, opened, cached_members, traits >>

\* reflifc::TemplateDeclaration{&file, d, ...}.template_specializations():
\* declarations(), the trait query, slice, and the view iterated to its end
TemplateSpecializations(d) ==
    /\ pc = "open"
    /\ \E acc \in { Accessors["declarations"] } :
       \E c \in { get_and_cache_partition(blob, oob, NDEBUG, table_of_contents_,
                      cached_partitions_, PartitionNameBytes[acc.name], acc.T, acc.slot) } :
       \E seq \in { IF c.ret.kind # "partition" THEN c.ret
                    ELSE trait_template_specializations(blob, oob, NDEBUG,
                                                        table_of_contents_, d) } :
       \E r \in { IF seq.kind # "value" THEN seq
                  ELSE template_specializations(blob, oob, NDEBUG, "this", c.ret, seq.val) } :
           /\ ret' = Query("template_specializations", acc.name, acc.T, c.hit, d, r)
           /\ cached_partitions_' = c.cache
           /\ returned' = Record(returned, "declarations", c.ret)
           /\ pc' = AfterCall(r)
    /\ UNCHANGED << input, conc, opened, cached_members, traits >>

\* File::header()
Header ==
    /\ pc = "open"
    /\ ret' = Call("header", "none", "FileHeader", FALSE, Value(header(blob, oob)))
    /\ UNCHANGED << input, conc, opened, pc, cached_partitions_, cached_members, returned,
                    traits >>

\* File::get_string(index)
GetString(index) ==
    /\ pc = "open"
    /\ ret' = Query("get_string", "none", "char", FALSE, index,
                    [kind |-> "pointer", data |-> get_raw_pointer(get_string(blob, oob, index)),
                     size |-> -1, val |-> <<>>])
    /\ UNCHANGED << input, conc, opened, pc, cached_partitions_, cached_members, returned,
                    traits >>

\* the operations on an open file with trait partitions
TraitNext ==
    \/ Open
    \/ GlobalScope
    \/ \E a \in AccessorNames : CallAccessor(a)
    \/ \E d \in QueryDecls : TraitDeclarationAttributes(d)
    \/ \E d \in QueryDecls : TraitDeprecationTexts(d)
    \/ \E d \in QueryDecls : TraitFriendshipOfClass(d)
    \/ \E module \in ModuleReferences(blob) : GetImportedModule(module)

TraitSpec == TraitInit /\ [][TraitNext]_vars

\* a well-formed file with all attribute partitions, with or without the
\* heaps and the other trait partitions
FrameInit ==
    /\ pristine \in { TraitBlob(f) : f \in { g \in TraitFiles : g.attrs = "both" } }
    /\ tamper = "none"
    /\ blob = pristine
    /\ NDEBUG \in BOOLEAN
    /\ Closed

\* the accessors, the slicing functions, the trait queries and the
\* operations of File that cache nothing
FrameNext ==
    \/ Open
    \/ \E a \in AccessorNames : CallAccessor(a)
    \/ \E f \in DOMAIN Slicers, seq \in Sequences : GetSlice(f, seq)
    \/ \E d \in QueryDecls : TemplateSpecializations(d)
    \/ \E d \in QueryDecls : TraitDeclarationAttributes(d)
    \/ \E d \in QueryDecls : TraitDeprecationTexts(d)
    \/ \E d \in QueryDecls : TraitFriendshipOfClass(d)
    \/ Header
    \/ \E index \in { 0, header(blob, oob).string_table_size - 1 } : GetString(index)
    \/ TableOfContents
    \/ ScopeDescriptors
    \/ GlobalScope

FrameSpec == FrameInit /\ [][FrameNext]_vars

(***************************************************************************)
(* Several threads on one File.  No member of File::Impl is atomic and no  *)
(* lock is taken, so a call is a sequence of steps that interleave with    *)
(* the steps of the other threads: reading a slot or an optional, storing  *)
(* a slot, emplacing a map, inserting one record, looking a decl up.       *)
(* Thread 1 opens the File and uses it alone until it shares it.           *)
(***************************************************************************)
\* the partitions a trait query scans, in order
ScannedPartitions ==
    [ trait_declaration_attributes |-> << "trait_attribute", "msvc_decl_attrs" >>,
      trait_deprecation_texts      |-> << "trait_deprecated" >>,
      trait_friendship_of_class    |-> << "trait_friend" >> ]

\* the optional of trait query q
TraitOpt(q) ==
    CASE q = "trait_declaration_attributes" -> trait_declaration_attributes_
      [] q = "trait_deprecation_texts"      -> trait_deprecation_texts_
      [] q = "trait_friendship_of_class"    -> trait_friendship_of_class_

\* a write of the optional of trait query q
SetTraitOpt(q, v) ==
    /\ trait_declaration_attributes_' =
          IF q = "trait_declaration_attributes" THEN v ELSE trait_declaration_attributes_
    /\ trait_deprecation_texts_' =
          IF q = "trait_deprecation_texts" THEN v ELSE trait_deprecation_texts_
    /\ trait_friendship_of_class_' =
          IF q = "trait_friendship_of_class" THEN v ELSE trait_friendship_of_class_

\* get_and_cache_partition going on to resolve and store whatever the slot holds
AfterSlotRead_Resolve(cached) == "resolve"

\* get_and_cache_partition, the if on the slot: return its contents or resolve
AfterSlotRead(cached) == IF cached # NONE THEN "return" ELSE "resolve"

\* the if on the optional of a trait map: look the decl up or build the map
AfterOptRead(opt) == IF opt # NONE THEN "find" ELSE "emplace"

\* where a build goes on from record i of the part-th scanned partition: to
\* that record, to the next partition that has one, or to the lookup
RECURSIVE NextRecord(_, _, _, _, _, _, _)
NextRecord(b, g, ndebug, toc_map, q, part, i) ==
    IF part > Len(ScannedPartitions[q]) THEN [at |-> "find", part |-> 0, i |-> 0]
    ELSE LET records == try_get_partition(b, g, ndebug, toc_map,
                            PartitionNameBytes[ScannedPartitions[q][part]], TraitQueries[q].T)
         IN  IF records.kind = "assert_fail" THEN [at |-> "assert_fail", part |-> 0, i |-> 0]
             ELSE IF records.kind = "partition" /\ i < records.size
             THEN [at |-> "fill", part |-> part, i |-> i]
             ELSE NextRecord(b, g, ndebug, toc_map, q, part + 1, 0)

\* the record at (part, i) inserted into the map m of trait query q, the
\* map that build number n emplaced: (*map)[decl].push_back(trait) on its
\* vectors, or (*map)[decl] = trait
InsertRecord(b, g, ndebug, toc_map, q, part, i, m, n) ==
    LET T       == TraitQueries[q].T
        records == try_get_partition(b, g, ndebug, toc_map,
                       PartitionNameBytes[ScannedPartitions[q][part]], T)
        record  == AssociatedTrait(b, g, records, T, i)
        k       == record.decl
    IN  IF q # "trait_declaration_attributes" THEN assign(m, k, record.trait)
        ELSE IF k \in DOMAIN m THEN [m EXCEPT ![k].elems = Append(@, record.trait)]
        ELSE m @@ (k :> [data |-> VectorAddress(n, k), elems |-> << record.trait >>])

\* the accessors and trait queries the threads call
ThreadAccessors == { "expr_heap" }
ThreadQueries == { "trait_declaration_attributes" }

\* the files the threads read: one with every trait partition and the
\* expression heap, one with .msvc.trait.decl-attrs alone
ThreadInit ==
    /\ pristine \in { TraitBlob(f) : f \in { h \in TraitFiles :
                                              /\ h.attrs \in { "both", "msvc" }
                                              /\ h.others <=> h.attrs = "both" } }
    /\ tamper = "none"
    /\ blob = pristine
    /\ NDEBUG \in BOOLEAN
    /\ Closed

\* thread 1 hands the File to the other threads
Share ==
    /\ pc = "open" /\ ~shared
    /\ \A t \in Threads : threads[t] = Idle
    /\ shared' = TRUE
    /\ UNCHANGED << input, opened, pc, cached_partitions_, cached_members, ret, returned,
                    traits, threads, warm, writes >>

\* a cached accessor: the slot is read; its contents are returned, or the
\* name is resolved and the call fails or goes on to store the slot.  The
\* other threads start once the File is shared; warm collects what thread 1
\* called before, writes which of those operations wrote afterwards.
ThreadAccessor(t, a) ==
    /\ pc = "open" /\ (shared \/ t = 1) /\ threads[t] = Idle
    /\ \E acc \in { Accessors[a] } :
       \E next \in { AfterSlotRead(cached_partitions_[acc.slot]) } :
       \E r \in { IF next = "return"
                  THEN PartitionOf(cached_partitions_[acc.slot].data,
                                   cached_partitions_[acc.slot].size)
                  ELSE get_partition_named(blob, oob, NDEBUG, table_of_contents_,
                                           PartitionNameBytes[acc.name], acc.T) } :
           IF next = "return" \/ r.kind # "partition"
           THEN /\ ret' = Call(a, acc.name, acc.T, next = "return", r)
                /\ pc' = AfterCall(r)
                /\ warm' = IF shared THEN warm ELSE warm \cup { a }
                /\ UNCHANGED threads
           ELSE /\ threads' = [threads EXCEPT ![t] = [Idle EXCEPT !.at = "store", !.op = a]]
                /\ UNCHANGED << ret, pc, warm >>
    /\ UNCHANGED << input, opened, cached_partitions_, cached_members, returned, traits,
                    shared, writes >>

\* cached_partition.emplace(result.data(), result.size()); return result
ThreadStore(t) ==
    /\ pc = "open" /\ threads[t].at = "store"
    /\ \E acc \in { Accessors[threads[t].op] } :
       \E r \in { get_partition_named(blob, oob, NDEBUG, table_of_contents_,
                                      PartitionNameBytes[acc.name], acc.T) } :
           /\ cached_partitions_' =
                 [cached_partitions_ EXCEPT ![acc.slot] = [data |-> r.data, size |-> r.size]]
           /\ ret' = Call(threads[t].op, acc.name, acc.T, FALSE, r)
           /\ warm' = IF shared THEN warm ELSE warm \cup { threads[t].op }
           /\ writes' = IF shared /\ threads[t].op \in warm
                         THEN writes \cup { threads[t].op } ELSE writes
           /\ threads' = [threads EXCEPT ![t] = Idle]
    /\ UNCHANGED << input, opened, pc, cached_members, returned, traits, shared >>

\* a trait query: the optional is read
ThreadQuery(t, q) ==
    /\ pc = "open" /\ (shared \/ t = 1) /\ threads[t] = Idle
    /\ threads' = [threads EXCEPT ![t] =
                      [Idle EXCEPT !.at = AfterOptRead(TraitOpt(q)), !.op = q,
                                   !.hit = TraitOpt(q) # NONE]]
    /\ UNCHANGED << input, opened, pc, cached_partitions_, cached_members, ret, returned,
                    traits, shared, warm, writes >>

\* the build going on to the scan with the emplace left for later
ThreadEmplace_Deferred(t) ==
    /\ pc = "open" /\ threads[t].at = "emplace"
    /\ \E to \in { NextRecord(blob, oob, NDEBUG, table_of_contents_, threads[t].op, 1, 0) } :
           /\ pc' = IF to.at = "assert_fail" THEN "aborted" ELSE pc
           /\ threads' = [threads EXCEPT ![t].at = to.at, ![t].part = to.part, ![t].i = to.i]
    /\ UNCHANGED << input, opened, cached_partitions_, cached_members, ret, returned, traits,
                    shared, warm, writes >>

\* optional::emplace(): a new, empty map
ThreadEmplace(t) ==
    /\ pc = "open" /\ threads[t].at = "emplace"
    /\ \E to \in { NextRecord(blob, oob, NDEBUG, table_of_contents_, threads[t].op, 1, 0) } :
           /\ SetTraitOpt(threads[t].op, [map |-> <<>>])
           /\ builds' = [builds EXCEPT ![threads[t].op] = @ + 1]
           /\ writes' = IF shared /\ threads[t].op \in warm
                         THEN writes \cup { threads[t].op } ELSE writes
           /\ pc' = IF to.at = "assert_fail" THEN "aborted" ELSE pc
           /\ threads' = [threads EXCEPT ![t].at = to.at, ![t].part = to.part, ![t].i = to.i]
    /\ UNCHANGED << input, opened, cached_partitions_, cached_members, ret, returned, spans,
                    shared, warm >>

\* one iteration of a scan: the record is inserted into the map the
\* optional holds now
ThreadFill(t) ==
    /\ pc = "open" /\ threads[t].at = "fill"
    /\ \E q \in { threads[t].op } :
       \E m \in { IF TraitOpt(q) = NONE THEN <<>> ELSE TraitOpt(q).map } :
       \E to \in { NextRecord(blob, oob, NDEBUG, table_of_contents_, q,
                              threads[t].part, threads[t].i + 1) } :
           /\ SetTraitOpt(q, [map |-> InsertRecord(blob, oob, NDEBUG, table_of_contents_, q,
                                                   threads[t].part, threads[t].i, m, builds[q])])
           /\ writes' = IF shared /\ q \in warm THEN writes \cup { q } ELSE writes
           /\ pc' = IF to.at = "assert_fail" THEN "aborted" ELSE pc
           /\ threads' = [threads EXCEPT ![t].at = to.at, ![t].part = to.part, ![t].i = to.i]
    /\ UNCHANGED << input, opened, cached_partitions_, cached_members, ret, returned, builds,
                    spans, shared, warm >>

\* get_value(declaration, map) on the map as it is now; the declaration
\* the query was called with is first used here
ThreadFind(t, d) ==
    /\ pc = "open" /\ threads[t].at = "find"
    /\ \E q \in { threads[t].op } :
       \E m \in { IF TraitOpt(q) = NONE THEN <<>> ELSE TraitOpt(q).map } :
       \E v \in { CASE q = "trait_declaration_attributes" ->
                         get_value(d, [ k \in DOMAIN m |-> AsSpan(m[k]) ], EmptySpan)
                    [] q = "trait_deprecation_texts"   -> get_value(d, m, NullText)
                    [] q = "trait_friendship_of_class" -> get_value(d, m, EmptySequence) } :
           /\ ret' = Query(q, TraitQueries[q].name, TraitQueries[q].T, threads[t].hit, d, v)
           /\ warm' = IF shared THEN warm ELSE warm \cup { q }
           /\ threads' = [threads EXCEPT ![t] = Idle]
    /\ UNCHANGED << input, opened, pc, cached_partitions_, cached_members, returned, traits,
                    shared, writes >>

\* two threads inside calls of one operation, one of them about to write
\* what the other reads or writes: a data race, undefined behaviour; besides
\* the interleavings above the process may fault
ThreadFault ==
    /\ pc = "open"
    /\ \E t1, t2 \in Threads :
          /\ t1 # t2
          /\ threads[t1].op = threads[t2].op
          /\ threads[t1].at \in { "store", "emplace", "fill" }
          /\ threads[t2].at # "idle"
    /\ pc' = "aborted"
    /\ threads' = [ t \in Threads |-> Idle ]
    /\ UNCHANGED << input, opened, cached_partitions_, cached_members, ret, returned, traits,
                    shared, warm, writes >>

ThreadNext ==
    \/ Open
    \/ Share
    \/ \E t \in Threads, a \in ThreadAccessors : ThreadAccessor(t, a)
    \/ \E t \in Threads : ThreadStore(t)
    \/ \E t \in Threads, q \in ThreadQueries : ThreadQuery(t, q)
    \/ \E t \in Threads : ThreadEmplace(t)
    \/ \E t \in Threads : ThreadFill(t)
    \/ \E t \in Threads, d \in QueryDecls : ThreadFind(t, d)
    \/ ThreadFault

ThreadSpec == ThreadInit /\ [][ThreadNext]_vars

(***************************************************************************)
(* Properties.                                                             *)
(***************************************************************************)
Opened == pc # "closed"

\* the TOC as the constructor read it
Toc == table_of_contents(blob, oob)

\* the name bytes of descriptor i
TocName(i) == StringView(blob, oob, get_string(blob, oob, Toc[i].name))

\* the descriptors whose name is byte-for-byte n
Named(n) == { i \in 1 .. Len(Toc) : TocName(i) = n }

\* the first descriptor named n
FirstNamed(n) == Toc[CHOOSE i \in Named(n) : \A j \in Named(n) : i <= j]

\* the blob before tampering opens, with every read inside it
PristineAccepted == ImplOutcome(pristine, 0) = "ok" /\ ~ReadsOutside(pristine, 0)

HasBadSignature(b) ==
    Len(b) >= SignatureSize /\ SubSeq(b, 1, SignatureSize) # CANONICAL_FILE_SIGNATURE

HasGoodSignature(b) ==
    Len(b) >= SignatureSize /\ SubSeq(b, 1, SignatureSize) = CANONICAL_FILE_SIGNATURE

\* C1: a blob whose first four bytes are not the canonical signature is
\* rejected with the bad-signature error, whatever its size fields say, and
\* the constructor has read no byte beyond those four.
C1_SignatureGate ==
    (Opened /\ HasBadSignature(blob)) =>
        (open_result = "bad_signature" /\ touched \subseteq SignatureReads)

\* a rejected blob that has a bad signature and a wrong size as well
C1_Witness ==
    /\ Opened /\ HasBadSignature(blob)
    /\ calc_size(blob, 0) # Len(blob)
    /\ open_result = "bad_signature"
    /\ touched = SignatureReads

\* C2: with a correct signature, the constructor succeeds exactly when the
\* sum of the region sizes equals the blob length, and otherwise fails with
\* the corrupted-file error.
C2_SizeCheck ==
    (Opened /\ HasGoodSignature(blob)) =>
        /\ open_result \in { "ok", "corrupted_file" }
        /\ open_result = "ok" <=> RegionSum(blob, oob) = Len(blob)

\* C3: an accepted blob whose partition_count was replaced by another
\* in-range count, or whose string_table_size was replaced by another value,
\* is rejected with the corrupted-file error.
C3_CountOrStringSizeChanged ==
    (Opened /\ tamper \in { "partition_count", "string_table_size" } /\ PristineAccepted) =>
        open_result = "corrupted_file"

\* C4: an accepted blob without its last byte is rejected with the
\* corrupted-file error.
C4_TruncatedRejected ==
    (Opened /\ tamper = "truncated" /\ PristineAccepted) => open_result = "corrupted_file"

\* C5: in an open file the TOC and the payload of every descriptor lie
\* inside the blob, and so does every partition a call returns.
C5_WithinBlob ==
    pc = "open" =>
        /\ header(blob, oob).toc + Len(Toc) * SizeofPartitionSummary <= Len(blob)
        /\ \A i \in 1 .. Len(Toc) :
              Toc[i].offset + Toc[i].cardinality * Toc[i].entry_size <= Len(blob)
        /\ ret.kind = "partition" =>
              /\ ret.data >= BlobBase
              /\ ret.data - BlobBase + ret.size * SizeofT[ret.T] <= Len(blob)

\* C6: in an open file the TOC name map has one entry per TOC descriptor:
\* no blob with two descriptors of the same name is accepted.
C6_OneEntryPerDescriptor ==
    pc = "open" =>
        /\ Cardinality(DOMAIN table_of_contents_) = Len(Toc)
        /\ \A i, j \in 1 .. Len(Toc) : TocName(i) = TocName(j) => i = j

\* C7: try_get_partition(n) yields the absent optional exactly when no TOC
\* descriptor is named n, get_partition(n) fails with missing partition
\* exactly then, and a partition either of them returns is the one of a
\* descriptor named n (the first such), never a default one.
C7_ResolutionByName ==
    ret.op \in { "try_get_partition", "get_partition" } =>
        LET n == PartitionNameBytes[ret.arg]
        IN  /\ (ret.op = "try_get_partition") =>
                  /\ ret.kind = "absent" <=> Named(n) = {}
                  /\ ret.kind # "missing_partition"
            /\ (ret.op = "get_partition") =>
                  /\ ret.kind = "missing_partition" <=> Named(n) = {}
                  /\ ret.kind # "absent"
            /\ (ret.kind = "partition") =>
                  /\ ret.data = BlobBase + FirstNamed(n).offset
                  /\ ret.size = FirstNamed(n).cardinality
            /\ (ret.kind = "assert_fail") => ~NDEBUG

\* get_partition fails on a name that is a proper prefix of a TOC name and
\* is itself not in the TOC
C7_Witness ==
    /\ ret.op = "get_partition" /\ ret.kind = "missing_partition"
    /\ \E i \in 1 .. Len(Toc) :
          /\ Len(TocName(i)) > Len(PartitionNameBytes[ret.arg])
          /\ SubSeq(TocName(i), 1, Len(PartitionNameBytes[ret.arg])) = PartitionNameBytes[ret.arg]

\* C8: for every TOC descriptor d, the partition returned for d's name
\* has data pointer blob base + d.offset and length d.cardinality.
C8_PartitionOfDescriptor ==
    (ret.kind = "partition") =>
        \A i \in Named(PartitionNameBytes[ret.arg]) :
            ret.data = BlobBase + Toc[i].offset /\ ret.size = Toc[i].cardinality

\* the accessors of File, cached or not
FileAccessorOps ==
    AccessorNames \cup { "File.cpp/" \o m : m \in MemberAccessorNames } \cup { "scope_descriptors" }

\* C9: an access through a File accessor with record type T to a partition
\* whose descriptor advertises an entry size other than sizeof(T) fails the
\* contract check and returns no partition, on the first access and on
\* every later one.
C9_EntrySizeGuard ==
    (ret.op \in FileAccessorOps /\ Named(PartitionNameBytes[ret.arg]) # {}) =>
        (FirstNamed(PartitionNameBytes[ret.arg]).entry_size # SizeofT[ret.T]
            => ret.kind = "assert_fail")

\* C10: all the partitions one accessor has returned on a file are the same
\* (data pointer, length) pair.
C10_CacheIdempotence ==
    \A a \in DOMAIN returned : Cardinality(returned[a]) <= 1

\* a later call of deduction_guides served from its slot, on a partition of
\* cardinality 0, after another accessor filled its own slot
C10_Witness ==
    /\ ret.op = "deduction_guides" /\ ret.hit /\ ret.kind = "partition" /\ ret.size = 0
    /\ cached_partitions_[Accessors["expr_heap"].slot] # NONE
    /\ returned["deduction_guides"] = { << ret.data, ret.size >> }

(***************************************************************************)
(* Properties of the caches, global_scope() and the trait queries.         *)
(***************************************************************************)
\* what a call of a cached accessor yields when resolved through the TOC map
RefAccessor(a) ==
    get_partition_named(blob, oob, NDEBUG, table_of_contents_,
                        PartitionNameBytes[Accessors[a].name], Accessors[a].T)

\* what a trait query yields on a map built for that query alone
RefTraitQuery(q, d) ==
    CASE q = "trait_declaration_attributes" ->
           LET t == trait_declaration_attributes(blob, oob, NDEBUG, table_of_contents_, NONE, 0)
           IN  IF t.kind # "ok" THEN AssertFail
               ELSE get_value(d, [ k \in DOMAIN t.opt.map |-> AsSpan(t.opt.map[k]) ], EmptySpan)
      [] q = "trait_deprecation_texts" ->
           LET t == trait_deprecation_texts(blob, oob, NDEBUG, table_of_contents_, NONE, 0)
           IN  IF t.kind # "ok" THEN AssertFail ELSE get_value(d, t.opt.map, NullText)
      [] q = "trait_friendship_of_class" ->
           LET t == trait_friendship_of_class(blob, oob, NDEBUG, table_of_contents_, NONE, 0)
           IN  IF t.kind # "ok" THEN AssertFail ELSE get_value(d, t.opt.map, EmptySequence)

\* equality of two returned values; two spans are equal when their lengths
\* and their elements are
SameValue(q, x, y) ==
    /\ x.kind = y.kind
    /\ x.kind = "value" =>
          IF q = "trait_declaration_attributes"
          THEN x.val.size = y.val.size /\ x.val.elems = y.val.elems
          ELSE x.val = y.val

\* C11: every value a cached accessor or a trait query returns, from its
\* cache or not, equals what a reference reader returns that resolves the
\* accessor through the TOC map and rebuilds the trait map for the query.
C11_ObservationalPurity ==
    /\ ret.op \in AccessorNames =>
          /\ ret.kind = RefAccessor(ret.op).kind
          /\ ret.data = RefAccessor(ret.op).data
          /\ ret.size = RefAccessor(ret.op).size
    /\ ret.op \in TraitQueryNames => SameValue(ret.op, ret, RefTraitQuery(ret.op, ret.index))

\* a friendship query answered from the built map with a stored Sequence,
\* on a file whose expr_heap slot is filled
C11_Witness ==
    /\ ret.op = "trait_friendship_of_class" /\ ret.hit /\ ret.kind = "value"
    /\ ret.val # EmptySequence
    /\ cached_partitions_[Accessors["expr_heap"].slot] # NONE

\* the accessors of File that return a partition
PartitionAccessorOps == FileAccessorOps \cup { "File.cpp/deduction_guides" }

\* C12: a call of a partition accessor that has returned a partition before
\* on this file is served from its cache slot, without a TOC map lookup.
C12_EveryAccessorCached ==
    (ret.op \in PartitionAccessorOps /\ ret.again /\ ret.kind = "partition") => ret.hit

\* the words of the record at index i of the first partition named n, whose
\* records are nwords words long
RecordAt(offset, nwords, i) ==
    [ w \in 1 .. nwords |->
        ReadWord(blob, oob, offset + i * nwords * WordBytes + (w - 1) * WordBytes) ]

StoredRecord(n, nwords, i) == RecordAt(FirstNamed(PartitionNameBytes[n]).offset, nwords, i)

\* whether the first partition named n has records of type T
WellTyped(n, T) == FirstNamed(PartitionNameBytes[n]).entry_size = SizeofT[T]

\* C13: global_scope() fails with missing partition exactly when no
\* descriptor is named scope.desc; on a scope.desc partition of Sequences
\* it returns the Sequence stored at index header.global_scope when that
\* index is less than the cardinality, and returns no value otherwise.
C13_GlobalScope ==
    ret.op = "global_scope" =>
        LET n  == PartitionNameBytes["scope_desc"]
            gs == header(blob, oob).global_scope
        IN  /\ ret.kind = "missing_partition" <=> Named(n) = {}
            /\ (Named(n) # {} /\ WellTyped("scope_desc", "Sequence")) =>
                  /\ ret.kind = "value" <=> gs < FirstNamed(n).cardinality
                  /\ ret.kind = "value" => ret.val = StoredRecord("scope_desc", 2, gs)

\* global_scope() on a file with the single scope descriptor {0, 0} and
\* header.global_scope = 0
C13_Witness ==
    /\ ret.op = "global_scope" /\ ret.kind = "value" /\ ret.val = << 0, 0 >>
    /\ header(blob, oob).global_scope = 0
    /\ Named(PartitionNameBytes["scope_desc"]) # {}
    /\ FirstNamed(PartitionNameBytes["scope_desc"]).cardinality = 1

\* the trait values of the records of partition n whose decl is d, in
\* partition order; no record when the partition is not in the TOC
TraitOfRecord(r) == IF Len(r) = 3 THEN << r[2], r[3] >> ELSE r[2]

TraitsOfRecords(records) == [ i \in 1 .. Len(records) |-> TraitOfRecord(records[i]) ]

TraitsIn(p, nwords, d) ==
    LET OfDecl(r) == r[1] = d
    IN  TraitsOfRecords(SelectSeq([ i \in 1 .. p.cardinality |->
                                      RecordAt(p.offset, nwords, i - 1) ], OfDecl))

TraitsOf(n, T, d) ==
    IF Named(PartitionNameBytes[n]) = {} THEN <<>>
    ELSE TraitsIn(FirstNamed(PartitionNameBytes[n]), SizeofT[T] \div WordBytes, d)

\* C14: trait_declaration_attributes(D) is the attr values of the
\* trait.attribute records with decl D in partition order, followed by those
\* of the .msvc.trait.decl-attrs records with decl D in partition order,
\* nothing removed or reordered.
C14_AttributeUnionOrder ==
    ret.op = "trait_declaration_attributes" =>
        \A first  \in { TraitsOf("trait_attribute", "AttrTrait", ret.index) },
           second \in { TraitsOf("msvc_decl_attrs", "AttrTrait", ret.index) } :
            /\ ret.kind = "value"
            /\ ret.val.elems = first \o second
            /\ ret.val.size = Len(first) + Len(second)

\* a decl with records in both partitions, one attr value occurring in both
C14_Witness ==
    /\ ret.op = "trait_declaration_attributes" /\ ret.kind = "value"
    /\ Len(TraitsOf("trait_attribute", "AttrTrait", ret.index)) > 1
    /\ TraitsOf("msvc_decl_attrs", "AttrTrait", ret.index) # <<>>
    /\ ret.val.elems[ret.val.size] = ret.val.elems[1]
    /\ ret.val.elems[2] # ret.val.elems[1]

\* C15: for a decl D with records in trait.deprecated,
\* trait_deprecation_texts(D) is the trait of the last of them; for a decl D
\* with records in trait.friend, trait_friendship_of_class(D) is the Sequence
\* of the last of them.
C15_LastWriteWins ==
    /\ ret.op = "trait_deprecation_texts" =>
          \A texts \in { TraitsOf("trait_deprecated", "TextTrait", ret.index) } :
              texts # <<>> => (ret.kind = "value" /\ ret.val = texts[Len(texts)])
    /\ ret.op = "trait_friendship_of_class" =>
          \A friends \in { TraitsOf("trait_friend", "SequenceTrait", ret.index) } :
              friends # <<>> => (ret.kind = "value" /\ ret.val = friends[Len(friends)])

\* a decl with several records of different texts, followed in the
\* partition by a record of another decl
C15_Witness ==
    /\ ret.op = "trait_deprecation_texts" /\ ret.kind = "value"
    /\ LET texts == TraitsOf("trait_deprecated", "TextTrait", ret.index)
       IN  /\ Len(texts) > 1
           /\ texts[1] # texts[Len(texts)]
           /\ ret.val = texts[Len(texts)]
           /\ Len(texts) < FirstNamed(PartitionNameBytes["trait_deprecated"]).cardinality

\* C16: without trait.deprecated every trait_deprecation_texts query returns
\* the null text offset; without trait.friend every
\* trait_friendship_of_class query returns the empty Sequence; without one
\* or both attribute partitions trait_declaration_attributes returns the
\* records of whichever is present; none of them raises an error.
C16_MissingTraitPartition ==
    /\ (ret.op = "trait_deprecation_texts"
        /\ Named(PartitionNameBytes["trait_deprecated"]) = {}) =>
          ret.kind = "value" /\ ret.val = NullText
    /\ (ret.op = "trait_friendship_of_class"
        /\ Named(PartitionNameBytes["trait_friend"]) = {}) =>
          ret.kind = "value" /\ ret.val = EmptySequence
    /\ (ret.op = "trait_declaration_attributes"
        /\ Named(PartitionNameBytes["trait_attribute"]) = {}) =>
          /\ ret.kind = "value"
          /\ ret.val.elems = TraitsOf("msvc_decl_attrs", "AttrTrait", ret.index)
    /\ (ret.op = "trait_declaration_attributes"
        /\ Named(PartitionNameBytes["msvc_decl_attrs"]) = {}) =>
          /\ ret.kind = "value"
          /\ ret.val.elems = TraitsOf("trait_attribute", "AttrTrait", ret.index)

\* attributes built from .msvc.trait.decl-attrs alone
C16_Witness ==
    /\ ret.op = "trait_declaration_attributes" /\ ret.kind = "value"
    /\ Named(PartitionNameBytes["trait_attribute"]) = {}
    /\ Named(PartitionNameBytes["msvc_decl_attrs"]) # {}
    /\ ret.val.elems # <<>>

\* the built map of a trait query; the empty map before the build
TraitMap(q) ==
    LET opt == CASE q = "trait_declaration_attributes" -> trait_declaration_attributes_
                 [] q = "trait_deprecation_texts"      -> trait_deprecation_texts_
                 [] q = "trait_friendship_of_class"    -> trait_friendship_of_class_
    IN  IF opt = NONE THEN <<>> ELSE opt.map

\* whether decl d is the decl of no record of the partitions query q scans
NoRecord(q, d) ==
    /\ TraitsOf(TraitQueries[q].name, TraitQueries[q].T, d) = <<>>
    /\ q = "trait_declaration_attributes" => TraitsOf("msvc_decl_attrs", "AttrTrait", d) = <<>>

\* the default value of the return type of query q
DefaultOf(q) ==
    CASE q = "trait_declaration_attributes" -> EmptySpan
      [] q = "trait_deprecation_texts"      -> NullText
      [] q = "trait_friendship_of_class"    -> EmptySequence

\* C17: a trait query for a decl that no record of the scanned partitions
\* has returns the default of its return type (empty span, null text
\* offset, empty Sequence), raises no error and leaves the map without an
\* entry for the decl.
C17_QueryMiss ==
    (ret.op \in TraitQueryNames /\ NoRecord(ret.op, ret.index)) =>
        /\ ret.kind = "value"
        /\ ret.val = DefaultOf(ret.op)
        /\ ret.index \notin DOMAIN TraitMap(ret.op)

\* a friendship query for a decl without records on a file whose
\* trait.friend has records of other decls
C17_Witness ==
    /\ ret.op = "trait_friendship_of_class" /\ ret.kind = "value"
    /\ NoRecord(ret.op, ret.index)
    /\ DOMAIN TraitMap(ret.op) # {}
    /\ ret.val = EmptySequence

\* C18: each trait map is built at most once; a query of a kind that was
\* made before scans nothing; a built map never changes; and
\* trait_declaration_attributes(d) has returned one span per decl: the same
\* data pointer, length and elements on every call.
C18_BuiltOnce ==
    /\ [] ( /\ \A q \in TraitQueryNames : builds[q] <= 1
            /\ (ret.op \in TraitQueryNames /\ ret.again) => ret.hit
            /\ \A d \in QueryDecls : Cardinality(spans[d]) <= 1 )
    /\ [][ /\ trait_declaration_attributes_ # NONE =>
                trait_declaration_attributes_' = trait_declaration_attributes_
           /\ trait_deprecation_texts_ # NONE =>
                trait_deprecation_texts_' = trait_deprecation_texts_
           /\ trait_friendship_of_class_ # NONE =>
                trait_friendship_of_class_' = trait_friendship_of_class_ ]_vars

\* a repeated attribute query returning the one non-empty span returned
\* before for the decl
C18_Witness ==
    /\ ret.op = "trait_declaration_attributes" /\ ret.again /\ ret.hit
    /\ ret.kind = "value" /\ ret.val.size > 0
    /\ spans[ret.index] = { ret.val }
    /\ builds[ret.op] = 1

\* the characters stored at text offset o, up to the NUL
TextAt(o) ==
    LET start == header(blob, oob).string_table_bytes + o
        end   == CHOOSE e \in start .. (Len(blob) - 1) :
                     /\ blob[e + 1] = 0
                     /\ \A j \in start .. (e - 1) : blob[j + 1] # 0
    IN  SubSeq(blob, start + 1, end)

\* C19: get_imported_module on a reference whose owner is null calls the
\* environment once, with the string at the reference's partition offset,
\* and returns the File the environment answered with.
C19_GlobalModule ==
    (ret.op = "get_imported_module" /\ ret.val.module.owner = 0) =>
        /\ ret.val.calls = << TextAt(ret.val.module.partition) >>
        /\ ret.val.file = ret.val.answer

\* a null owner with a partition string that is not the string at offset 0
C19_Witness ==
    /\ ret.op = "get_imported_module"
    /\ ret.val.module.owner = 0 /\ ret.val.module.partition # 0
    /\ TextAt(ret.val.module.partition) \notin { <<>>, TextAt(0) }
    /\ ret.val.calls = << TextAt(ret.val.module.partition) >>

\* the name shapes of a reference: the owner string alone, or the owner
\* string, ':' and the partition string
OwnerAlone(module) == TextAt(module.owner)
OwnerAndPartition(module) ==
    TextAt(module.owner) \o << 58 % ByteBase >> \o TextAt(module.partition)

\* C20 as stated: the one name passed is the owner string alone or owner,
\* ':' and partition, the latter exactly when the partition is non-null.
C20_OwnerNameShapes ==
    ret.op = "get_imported_module" =>
        /\ Len(ret.val.calls) = 1
        /\ ret.val.calls[1] = IF ret.val.module.partition # 0
                              THEN OwnerAndPartition(ret.val.module)
                              ELSE OwnerAlone(ret.val.module)

\* C20: with a null owner the one name passed is the partition string
\* alone; with a non-null owner it is the owner string, followed by ':' and
\* the partition string exactly when the partition is non-null.
C20_NameShapes ==
    ret.op = "get_imported_module" =>
        /\ Len(ret.val.calls) = 1
        /\ ret.val.calls[1] =
              IF ret.val.module.owner = 0 THEN TextAt(ret.val.module.partition)
              ELSE IF ret.val.module.partition # 0 THEN OwnerAndPartition(ret.val.module)
              ELSE OwnerAlone(ret.val.module)

\* a partition import: owner and partition both non-null
C20_Witness ==
    /\ ret.op = "get_imported_module"
    /\ ret.val.module.owner # 0 /\ ret.val.module.partition # 0
    /\ ret.val.calls = << OwnerAndPartition(ret.val.module) >>
    /\ TextAt(ret.val.module.owner) # <<>> /\ TextAt(ret.val.module.partition) # <<>>

(***************************************************************************)
(* Properties of several threads on one File.                              *)
(***************************************************************************)
\* the lazy state: the cache table and the trait maps
LazyState ==
    << cached_partitions_, trait_declaration_attributes_, trait_deprecation_texts_,
       trait_friendship_of_class_ >>

\* whether every thread is outside a call or inside a call of an operation
\* that was called before the File was shared
OnlyWarmCalls == \A t \in Threads : threads[t].op \in warm \cup { "none" }

\* what a call of op for decl d returns in a sequential execution
Sequential(op, d) == IF op \in AccessorNames THEN RefAccessor(op) ELSE RefTraitQuery(op, d)

\* C21: once the File is shared, a call of an operation that thread 1
\* called before sharing it writes neither the cache table nor a trait map,
\* whatever the threads interleave, and returns what the operation returns
\* in a sequential execution.
C21_WarmReads ==
    /\ [] ( /\ writes = {}
            /\ (shared /\ ret.op \in warm) =>
                  \A seq \in { Sequential(ret.op, ret.index) } :
                      /\ SameValue(ret.op, ret, seq)
                      /\ ret.data = seq.data /\ ret.size = seq.size )
    /\ [][ (shared /\ OnlyWarmCalls) => LazyState' = LazyState ]_vars

\* an attribute query answered on the shared File while the other thread is
\* inside the same query, after a warm-up that filled the expr_heap slot and
\* built the attribute map
C21_Witness ==
    /\ shared /\ warm = ThreadAccessors \cup ThreadQueries
    /\ ret.op = "trait_declaration_attributes" /\ ret.hit
    /\ ret.kind = "value" /\ ret.val.size > 1
    /\ \E t \in Threads : threads[t].at = "find" /\ threads[t].op = ret.op
    /\ cached_partitions_[Accessors["expr_heap"].slot] # NONE

\* the attribute list of decl d in the fully built map
FullList(d) == RefTraitQuery("trait_declaration_attributes", d).val.elems

\* C28: the attribute map is marked built, empty, before either partition
\* is scanned, and nothing orders the steps of two threads; a query returns
\* a list other than the one of the fully built map only on a File that
\* was shared before the map was built.
C28_UnsynchronizedBuild ==
    /\ [] ( /\ \A t \in Threads :
                  threads[t].at = "fill" => TraitOpt(threads[t].op) # NONE
            /\ (ret.op = "trait_declaration_attributes" /\ ret.kind = "value"
                /\ ret.val.elems # FullList(ret.index)) =>
                  (shared /\ ret.op \notin warm) )
    /\ [][ (trait_declaration_attributes_ = NONE /\ trait_declaration_attributes_' # NONE) =>
               trait_declaration_attributes_'.map = <<>> ]_vars

\* two first-time queries on a cold File: one found the map built while the
\* other thread is still scanning, and returned fewer attributes than the
\* decl has
C28_Witness ==
    /\ shared /\ warm = {}
    /\ ret.op = "trait_declaration_attributes" /\ ret.hit /\ ret.kind = "value"
    /\ FullList(ret.index) # <<>>
    /\ ret.val.size < Len(FullList(ret.index))
    /\ builds["trait_declaration_attributes"] = 1
    /\ \E t \in Threads : threads[t].at = "fill" /\ threads[t].op = ret.op

(***************************************************************************)
(* Properties of the string table, slices and the TOC.                     *)
(***************************************************************************)
\* whether the string at text offset t starts inside the string table and
\* has its NUL inside it
InStringTable(t) ==
    LET h == header(blob, oob)
        a == get_string(blob, oob, t)
    IN  /\ a = h.string_table_bytes + t
        /\ a >= h.string_table_bytes
        /\ a < h.string_table_bytes + h.string_table_size
        /\ \E e \in a .. (h.string_table_bytes + h.string_table_size - 1) :
              e < Len(blob) /\ blob[e + 1] = 0

\* C22: in an open file the name of every TOC descriptor is a string of
\* the string table: get_string of its text offset is string table base +
\* offset, inside the table, with a NUL inside the table after it.
C22_StringTableAddressing ==
    pc = "open" => \A i \in 1 .. Len(Toc) : InStringTable(Toc[i].name)

(***************************************************************************)
(* Properties of slices.                                                   *)
(***************************************************************************)
\* the partition each slicing function takes its elements from
SlicedPartition ==
    [ get_declarations              |-> [name |-> "scope_member", T |-> "Declaration"],
      get_tuple_expression_elements |-> [name |-> "heap_expr",    T |-> "ExprIndex"] ]

\* C23: get_declarations(file, scope) and get_tuple_expression_elements
\* return only when start + size is at most the cardinality of
\* declarations() / expr_heap(); the slice then has size elements, the
\* records stored at the positions start .. start + size - 1 of that
\* partition in order, all of them inside the partition.  Otherwise the call
\* fails: missing partition without the partition, a contract violation
\* when the Sequence reaches past the end.
C23_SliceBounds ==
    ret.op \in DOMAIN SlicedPartition =>
        LET n      == SlicedPartition[ret.op].name
            T      == SlicedPartition[ret.op].T
            nwords == SizeofT[T] \div WordBytes
            start  == ret.index[1]
            size   == ret.index[2]
        IN  IF Named(PartitionNameBytes[n]) = {} THEN ret.kind = "missing_partition"
            ELSE \A p \in { FirstNamed(PartitionNameBytes[n]) } :
                   /\ ret.kind = "partition" <=> start + size <= p.cardinality
                   /\ ret.kind # "partition" =>
                         ret.kind = IF NDEBUG THEN "malformed_artifact" ELSE "assert_fail"
                   /\ ret.kind = "partition" =>
                         /\ ret.size = size
                         /\ \A k \in 0 .. (size - 1) :
                              /\ ReadRecord(blob, oob, ret, T, k) = RecordAt(p.offset, nwords, start + k)
                              /\ ret.data + k * SizeofT[T] >= get_raw_pointer(p.offset)
                              /\ ret.data + (k + 1) * SizeofT[T] <=
                                    get_raw_pointer(p.offset) + p.cardinality * p.entry_size

\* a slice of two declarations that does not start at the first one
C23_Witness ==
    /\ ret.op = "get_declarations" /\ ret.kind = "partition"
    /\ ret.index[1] = 1 /\ ret.size = MaxCardinality
    /\ ReadRecord(blob, oob, ret, "Declaration", 0) # ReadRecord(blob, oob, ret, "Declaration", 1)

\* the Sequence of the last trait.specialization record of decl d, the
\* empty Sequence without such a record or without the partition
SpecializationsOf(d) ==
    LET seqs == TraitsOf("trait_specialization", "SequenceTrait", d)
    IN  IF seqs = <<>> THEN EmptySequence ELSE seqs[Len(seqs)]

\* C24: template_specializations() of the template with DeclIndex D yields
\* one Declaration per element of the slice of declarations() given by the
\* specializations Sequence of D, in the order of the slice: as many as the
\* Sequence's size, none when the Sequence is empty, each with the file
\* pointer of the template and the DeclIndex stored in the scope.member
\* record at the same position.
C24_TemplateSpecializations ==
    (ret.op = "template_specializations" /\ Named(PartitionNameBytes["scope_member"]) # {}) =>
        \A seq \in { SpecializationsOf(ret.index) },
           p   \in { FirstNamed(PartitionNameBytes["scope_member"]) } :
            /\ ret.kind = "value"
            /\ Len(ret.val) = seq[2]
            /\ seq = EmptySequence => ret.val = <<>>
            /\ \A k \in 1 .. seq[2] :
                  /\ ret.val[k].ifc = "this"
                  /\ ret.val[k].index = RecordAt(p.offset, 1, seq[1] + k - 1)[1]

\* a template with several specializations whose DeclIndexes are not their
\* positions in scope.member
C24_Witness ==
    /\ ret.op = "template_specializations" /\ ret.kind = "value"
    /\ Len(ret.val) > 1
    /\ ret.val[1].index # SpecializationsOf(ret.index)[1]
    /\ ret.val[1].index # ret.val[2].index

(***************************************************************************)
(* Properties of the table of contents and of the lazy state.              *)
(***************************************************************************)
\* a blob of signature and header alone, with no partition and no string
HeaderOnly(b) ==
    /\ Len(b) = SizeofStructure
    /\ HasGoodSignature(b)
    /\ header(b, 0).partition_count = 0
    /\ header(b, 0).string_table_size = 0

\* C25: on an open File table_of_contents() is a span of
\* header.partition_count descriptors whose first one is at blob offset
\* header.toc, the i-th being the 16 bytes at header.toc + 16 (i - 1); a blob
\* of signature and header alone with partition_count = 0 and
\* string_table_size = 0 is accepted and its table of contents is empty.
C25_TableOfContents ==
    /\ ret.op = "table_of_contents" =>
          \A h \in { header(blob, oob) } :
              /\ ret.size = h.partition_count
              /\ Len(ret.val) = h.partition_count
              /\ ret.data = BlobBase + h.toc
              /\ \A i \in 1 .. h.partition_count :
                    \A f \in DOMAIN SummaryFieldOffset :
                        ret.val[i][f] = ReadWord(blob, oob,
                                                 h.toc + SizeofPartitionSummary * (i - 1)
                                                 + SummaryFieldOffset[f])
    /\ (Opened /\ HeaderOnly(blob)) =>
          /\ open_result = "ok"
          /\ ret.op = "table_of_contents" => ret.size = 0

\* the table of contents of a file with several partitions whose
\* descriptors do not follow the header
C25_Witness ==
    /\ ret.op = "table_of_contents"
    /\ ret.size > 1
    /\ header(blob, oob).toc # SizeofStructure
    /\ ret.val[1] # ret.val[2]

\* the table of contents of a blob of signature and header alone
HeaderOnlyOpened ==
    /\ ret.op = "table_of_contents" /\ HeaderOnly(blob) /\ ret.size = 0

\* the accessor a call of op runs, "none" when it runs none
AccessorOf(op) ==
    IF op \in AccessorNames THEN op
    ELSE IF op \in DOMAIN Slicers THEN Slicers[op]
    ELSE IF op = "template_specializations" THEN "declarations"
    ELSE "none"

\* C26: when the constructor returns, every cache slot is empty and no trait
\* map is built.  A slot goes from empty to filled only in a call of its
\* accessor that the slot did not serve, and holds the (data pointer,
\* length) of the partition the TOC map resolves the accessor's name to.  A
\* filled slot never changes, and every call of its accessor is served from
\* it and returns its contents.
C26_SlotLifecycle ==
    /\ [][ (pc = "closed" /\ pc' = "open") =>
              /\ \A s \in DOMAIN cached_partitions_' : cached_partitions_'[s] = NONE
              /\ trait_declaration_attributes_' = NONE
              /\ trait_deprecation_texts_' = NONE
              /\ trait_friendship_of_class_' = NONE ]_vars
    /\ [][ \A a \in AccessorNames :
             \A s \in { Accessors[a].slot } :
               /\ (cached_partitions_[s] = NONE /\ cached_partitions_'[s] # NONE) =>
                     /\ AccessorOf(ret'.op) = a
                     /\ ~ret'.hit
                     /\ \A r \in { RefAccessor(a) } :
                           /\ r.kind = "partition"
                           /\ cached_partitions_'[s] = [data |-> r.data, size |-> r.size]
               /\ cached_partitions_[s] # NONE =>
                     /\ cached_partitions_'[s] = cached_partitions_[s]
                     /\ (pc = "open" /\ AccessorOf(ret'.op) = a) => ret'.hit
                     /\ (pc = "open" /\ ret'.op = a) =>
                           /\ ret'.kind = "partition"
                           /\ ret'.data = cached_partitions_[s].data
                           /\ ret'.size = cached_partitions_[s].size ]_vars

\* a call served from a slot that an earlier call filled, while another
\* slot is still empty
C26_Witness ==
    /\ ret.op = "expr_heap" /\ ret.hit /\ ret.kind = "partition"
    /\ cached_partitions_[Accessors["expr_heap"].slot] =
           [data |-> ret.data, size |-> ret.size]
    /\ cached_partitions_[Accessors["declarations"].slot] = NONE
    /\ Named(PartitionNameBytes["scope_member"]) # {}

\* the value of a FilePartitionCache enumerator
Enumerator(e) == (CHOOSE i \in 1 .. Len(FilePartitionCache) : FilePartitionCache[i] = e) - 1

\* the slot table of the source: every accessor's cache_type is an
\* enumerator below Num, and every slot below Num is the slot of exactly
\* one accessor
SlotTableSound ==
    \A slots \in { [ i \in 1 .. Len(CachedAccessors) |-> Enumerator(CachedAccessors[i][4]) ] } :
        /\ \A i \in 1 .. Len(CachedAccessors) :
              /\ CachedAccessors[i][4] \in RangeOf(FilePartitionCache)
              /\ slots[i] < Enumerator("Num")
        /\ Cardinality(RangeOf(slots)) = Len(CachedAccessors)
        /\ RangeOf(slots) = 0 .. (Enumerator("Num") - 1)

\* C27: every cache slot index is below FilePartitionCache::Num and is the
\* cache_type of exactly one accessor, hence of one partition name and one
\* record type (the table is constant and is examined before the
\* constructor runs); the accessors the model calls use the slots and
\* record types of that table, no two of them the same slot; and a filled
\* slot holds, and a call served from it returns, the partition of the
\* slot's own accessor.
C27_SlotSoundness ==
    /\ pc = "closed" =>
          /\ SlotTableSound
          /\ \A a \in AccessorNames :
                \E i \in 1 .. Len(CachedAccessors) :
                    /\ CachedAccessors[i][1] = a
                    /\ CachedAccessors[i][2] = Accessors[a].T
                    /\ Enumerator(CachedAccessors[i][4]) = Accessors[a].slot
          /\ \A a, b \in AccessorNames : Accessors[a].slot = Accessors[b].slot => a = b
    /\ pc = "open" =>
          \A a \in AccessorNames :
              (cached_partitions_[Accessors[a].slot] # NONE
               \/ (ret.op = a /\ ret.kind = "partition")) =>
                  \A r \in { RefAccessor(a) } :
                      /\ r.kind = "partition"
                      /\ cached_partitions_[Accessors[a].slot] = [data |-> r.data, size |-> r.size]
                      /\ ret.op = a => (ret.data = r.data /\ ret.size = r.size)

\* two slots filled with different partitions, the later call served from
\* its own slot
C27_Witness ==
    /\ ret.op = "expr_heap" /\ ret.hit /\ ret.kind = "partition"
    /\ cached_partitions_[Accessors["declarations"].slot] # NONE
    /\ cached_partitions_[Accessors["expr_heap"].slot] # NONE
    /\ cached_partitions_[Accessors["declarations"].slot] #
           cached_partitions_[Accessors["expr_heap"].slot]

\* the accessors that keep their partition in a slot or in an optional
\* member: the operation, the partition name, what is cached for it
CachedOps ==
    { [op |-> a, name |-> Accessors[a].name,
       cached |-> cached_partitions_[Accessors[a].slot]] : a \in AccessorNames }
    \cup
    { [op |-> "File.cpp/" \o a, name |-> MemberAccessors[a].name,
       cached |-> cached_members[a]] : a \in MemberAccessorNames }

\* whether no key of the TOC map is the partition name n
Unknown(n) == PartitionNameBytes[n] \notin DOMAIN table_of_contents_

\* C29: a cached accessor whose partition name is not in the TOC map fails
\* with missing partition at every call, the first and every later one; the
\* call leaves its slot empty and changes no other slot, no optional member
\* and no trait map, and the slot of such an accessor is empty in every
\* state.
C29_FailedAccess ==
    /\ [] ( pc = "open" =>
              \A c \in CachedOps :
                  Unknown(c.name) =>
                      /\ c.cached = NONE
                      /\ ret.op = c.op => ret.kind = "missing_partition" )
    /\ [][ \A c \in CachedOps :
             (pc = "open" /\ ret'.op = c.op /\ Unknown(c.name)) =>
                 /\ ret'.kind = "missing_partition"
                 /\ ~ret'.hit
                 /\ cached_partitions_' = cached_partitions_
                 /\ cached_members' = cached_members
                 /\ table_of_contents_' = table_of_contents_
                 /\ LazyState' = LazyState
                 /\ pc' = "open" ]_vars

\* a failed call of expr_heap() on a File whose declarations() slot and
\* optional member are filled
C29_Witness ==
    /\ pc = "open"
    /\ ret.op = "expr_heap" /\ ret.kind = "missing_partition"
    /\ cached_partitions_[Accessors["expr_heap"].slot] = NONE
    /\ cached_partitions_[Accessors["declarations"].slot] # NONE
    /\ cached_members["declarations"] # NONE
    /\ cached_members["expr_heap"] = NONE

\* the operations of File that neither fill a slot nor build a trait map
Uncached == { "header", "get_string", "table_of_contents", "scope_descriptors", "global_scope" }

\* C30: a call of a cached accessor changes no cache slot but its own and no
\* trait map; a trait query changes no trait map but its own and no cache
\* slot; header(), get_string(), table_of_contents(), scope_descriptors()
\* and global_scope() change no cache slot and no trait map.
C30_LazyFrame ==
    [][ pc = "open" =>
          /\ \A a \in AccessorNames :
                ret'.op = a =>
                    /\ \A s \in DOMAIN cached_partitions_ \ { Accessors[a].slot } :
                          cached_partitions_'[s] = cached_partitions_[s]
                    /\ \A q \in TraitQueryNames : TraitOpt(q)' = TraitOpt(q)
          /\ \A q \in TraitQueryNames :
                ret'.op = q =>
                    /\ cached_partitions_' = cached_partitions_
                    /\ \A other \in TraitQueryNames \ { q } : TraitOpt(other)' = TraitOpt(other)
          /\ ret'.op \in Uncached => LazyState' = LazyState ]_vars

\* an accessor filling its slot on a File with another slot filled and all
\* three trait maps built
C30_Witness ==
    /\ ret.op = "expr_heap" /\ ~ret.hit /\ ret.kind = "partition"
    /\ cached_partitions_[Accessors["expr_heap"].slot] # NONE
    /\ cached_partitions_[Accessors["declarations"].slot] # NONE
    /\ \A q \in TraitQueryNames : TraitOpt(q) # NONE /\ TraitOpt(q).map # <<>>

====
